---- MODULE Spec2Model ----
(***************************************************************************)
(* A model of hydroflow's detention-pond routing (core/routing.py), of the *)
(* outlet structures it routes through (core/structures.py) and of the     *)
(* unit conversion both call (units.py); of the water network a caller     *)
(* builds component by component (network/model.py, network/controls.py,   *)
(* network/_time.py); and of the layered material database (materials.py). *)
(*                                                                         *)
(* Numbers.  The program computes in float64.  The model computes in       *)
(* fixed point: every quantity is an integer number of thousandths of its  *)
(* SI unit (stage in mm, volume in litres, flow and storage-indication in  *)
(* L/s, coefficients in 1/1000), time steps are whole seconds, and every   *)
(* multiplication or division rounds its result to the nearest integer,    *)
(* as a float operation rounds to the nearest float.                       *)
(***************************************************************************)
EXTENDS Integers, Sequences, FiniteSets, TLC

VARIABLES
    units,      \* units._local.system of the calling thread
    heap,       \* outlet objects bound to names by the outlet session
    lastQ,      \* the last discharge_si() call of the outlet session
    pond,       \* the DetentionPond object (its three arrays and its outlet)
    call,       \* the arguments of the route() call in progress
    pc,         \* position of the route() call
    i,          \* loop index of route()
    SI_prev,    \* route()'s SI_prev
    stages,     \* route()'s stages array
    outflows,   \* route()'s outflows array
    result,     \* the RoutingResult returned, or the exception raised
    earlier,    \* an earlier route() call of the thread and what it returned
    workers,    \* the threads started on the pond: each one's
                \* units._local.system and the locals of its route() call
    net,        \* the WaterNetwork object: its six dicts and its control list
    netOut,     \* the last WaterNetwork call: what it returned or raised
    mat,        \* materials.py: the module caches, the firm config file and
                \* the calling thread's materials._local
    matOut,     \* the last materials call: what it returned or raised
    localSystem,\* units._local.system of each thread, "unset" while the
                \* thread has no such attribute
    unitsOut    \* the last set_units()/get_units() call of each thread

vars == <<units, heap, lastQ, pond, call, pc, i, SI_prev, stages, outflows, result,
          earlier, workers, net, netOut, mat, matOut, localSystem, unitsOut>>

outletVars == <<heap, lastQ>>
routeVars == <<pond, call, pc, i, SI_prev, stages, outflows, result>>
netVars == <<net, netOut>>
matVars == <<mat, matOut>>
unitVars == <<localSystem, unitsOut>>
libraryVars == <<netVars, matVars, unitVars>>
sessionVars == <<earlier, workers, libraryVars>>
coreVars == <<units, outletVars, routeVars, earlier, workers>>

-----------------------------------------------------------------------------
(* Fixed-point arithmetic *)

Scale == 1000

Max(a, b) == IF b > a THEN b ELSE a

Min(a, b) == IF b < a THEN b ELSE a

\* n / d rounded to the nearest integer, d > 0
RoundDiv(n, d) == (n + (d \div 2)) \div d

\* a * b / c rounded, without forming a * b, c > 0
MulDiv(a, b, c) == a * (b \div c) + RoundDiv(a * (b % c), c)

RECURSIVE SqrtSearch(_, _, _)
SqrtSearch(n, lo, hi) ==
    IF lo >= hi THEN lo
    ELSE LET mid == (lo + hi + 1) \div 2
         IN  IF mid * mid <= n THEN SqrtSearch(n, mid, hi)
                               ELSE SqrtSearch(n, lo, mid - 1)

\* math.sqrt on a non-negative integer: the integer part of the root
ISqrt(n) == SqrtSearch(n, 0, Min(n, 46340))

\* sqrt(x) for x in thousandths, in thousandths
FSqrt(x) == ISqrt(x * Scale)

RECURSIVE SumSeq(_)
SumSeq(s) == IF s = <<>> THEN 0 ELSE Head(s) + SumSeq(Tail(s))

RECURSIVE MaxSeq(_)
MaxSeq(s) == IF Len(s) = 1 THEN s[1] ELSE Max(s[1], MaxSeq(Tail(s)))

\* an argmax that returns the last index of the maximum
ArgMaxLast(s) == CHOOSE k \in 1..Len(s) :
                     /\ s[k] = MaxSeq(s)
                     /\ \A j \in (k + 1)..Len(s) : s[j] # s[k]

\* np.argmax: the first index (from 1) of the maximum
ArgMax(s) == CHOOSE k \in 1..Len(s) :
                 /\ s[k] = MaxSeq(s)
                 /\ \A j \in 1..(k - 1) : s[j] # s[k]

-----------------------------------------------------------------------------
(* units.py *)

UnitSystems == {"metric", "imperial"}

\* _DISPLAY restricted to the quantities the core converts
DisplayUnit(system, quantity) ==
    IF system = "metric"
    THEN CASE quantity = "length" -> "m"
           [] quantity = "volume" -> "m3"
           [] quantity = "flow" -> "cms"
    ELSE CASE quantity = "length" -> "ft"
           [] quantity = "volume" -> "ft3"
           [] quantity = "flow" -> "cfs"

\* _TO_SI as a fraction <<numerator, denominator>>
ToSIFactor(unit) ==
    CASE unit = "m" -> <<1, 1>>
      [] unit = "ft" -> <<3048, 10000>>
      [] unit = "m3" -> <<1, 1>>
      [] unit = "ft3" -> <<28317, 1000000>>
      [] unit = "cms" -> <<1, 1>>
      [] unit = "cfs" -> <<28317, 1000000>>

\* to_si() of a plain (untagged) float under the unit system `system`
to_si(value, quantity, system) ==
    LET f == ToSIFactor(DisplayUnit(system, quantity))
    IN  MulDiv(value, f[1], f[2])

\* from_si()
from_si(value_si, quantity, system) ==
    LET f == ToSIFactor(DisplayUnit(system, quantity))
    IN  MulDiv(value_si, f[2], f[1])

\* set_units(system)
SetUnits(system) ==
    /\ system \in UnitSystems
    /\ units' = system

-----------------------------------------------------------------------------
(* core/structures.py: the outlet structures.  An outlet object is a record *)
(* kind, size (diameter, length or notch angle in degrees), elev (invert,   *)
(* crest or vertex), coef (Cd or Cw), aux (the orifice's area in mm2, the   *)
(* V-notch's coefficient) and members (a composite's _structures).          *)

_G == 9807

\* math.pi
Pi == 3142

NoObj == [kind |-> "none", size |-> 0, elev |-> 0, coef |-> 0, aux |-> 0,
          members |-> <<>>]

\* math.tan(math.radians(angle_degrees) / 2.0) for the angles the model draws
TanHalf(angle_degrees) ==
    CASE angle_degrees = 0 -> 0
      [] angle_degrees = 60 -> 577
      [] angle_degrees = 90 -> 1000
      [] angle_degrees = 120 -> 1732

\* H**1.5 and H**2.5
Pow15(H) == MulDiv(H, FSqrt(H), Scale)

Pow25(H) == MulDiv(MulDiv(H, H, Scale), FSqrt(H), Scale)

\* Orifice.__init__ : no argument is validated
Orifice(diameter, invert, Cd, system) ==
    LET d == to_si(diameter, "length", system)
        r == RoundDiv(d, 2)
    IN  [kind |-> "orifice", size |-> d,
         elev |-> to_si(invert, "length", system), coef |-> Cd,
         aux |-> MulDiv(Pi, r * r, Scale), members |-> <<>>]

\* RectangularWeir.__init__
RectangularWeir(length, crest, Cw, system) ==
    [kind |-> "rectangular", size |-> to_si(length, "length", system),
     elev |-> to_si(crest, "length", system), coef |-> Cw, aux |-> 0,
     members |-> <<>>]

\* VNotchWeir.__init__
VNotchWeir(angle_degrees, vertex, Cd, system) ==
    [kind |-> "vnotch", size |-> angle_degrees,
     elev |-> to_si(vertex, "length", system), coef |-> Cd,
     aux |-> MulDiv(MulDiv(MulDiv(RoundDiv(8 * Scale, 15), Cd, Scale),
                           TanHalf(angle_degrees), Scale),
                    FSqrt(2 * _G), Scale),
     members |-> <<>>]

\* BroadCrestedWeir.__init__
BroadCrestedWeir(length, crest, Cw, system) ==
    [kind |-> "broad", size |-> to_si(length, "length", system),
     elev |-> to_si(crest, "length", system), coef |-> Cw, aux |-> 0,
     members |-> <<>>]

\* CompositeOutlet.__init__(*structures): the arguments are stored as given
CompositeOutlet(structures) ==
    [kind |-> "composite", size |-> 0, elev |-> 0, coef |-> 0, aux |-> 0,
     members |-> structures]

\* Orifice.discharge_si
OrificeDischarge(o, stage_si) ==
    LET centroid == o.elev + RoundDiv(o.size, 2)
        H == stage_si - centroid
    IN  IF H <= 0 THEN 0
        ELSE MulDiv(MulDiv(o.coef, o.aux, Scale), ISqrt(2 * _G * H),
                    Scale * Scale)

\* a weir that measures the head from the datum instead of from its crest
WeirDischargeHeadFromDatum(o, stage_si) ==
    LET H == stage_si
    IN  IF H <= 0 THEN 0
        ELSE MulDiv(MulDiv(o.coef, o.size, Scale), Pow15(H), Scale)

\* RectangularWeir.discharge_si and BroadCrestedWeir.discharge_si
WeirDischarge(o, stage_si) ==
    LET H == stage_si - o.elev
    IN  IF H <= 0 THEN 0
        ELSE MulDiv(MulDiv(o.coef, o.size, Scale), Pow15(H), Scale)

\* VNotchWeir.discharge_si
VNotchDischarge(o, stage_si) ==
    LET H == stage_si - o.elev
    IN  IF H <= 0 THEN 0 ELSE MulDiv(o.aux, Pow25(H), Scale)

RECURSIVE discharge_si(_, _)
RECURSIVE SumDischarge(_, _)

\* CompositeOutlet.discharge_si: sum(s.discharge_si(stage_si) for s in ...)
SumDischarge(structures, stage_si) ==
    IF structures = <<>> THEN 0
    ELSE SumDischarge(SubSeq(structures, 1, Len(structures) - 1), stage_si)
         + discharge_si(structures[Len(structures)], stage_si)

CompositeDischarge(o, stage_si) == SumDischarge(o.members, stage_si)

\* outlet.discharge_si(stage_si), whatever the class of outlet
discharge_si(o, stage_si) ==
    CASE o.kind = "orifice" -> OrificeDischarge(o, stage_si)
      [] o.kind = "rectangular" -> WeirDischarge(o, stage_si)
      [] o.kind = "broad" -> WeirDischarge(o, stage_si)
      [] o.kind = "vnotch" -> VNotchDischarge(o, stage_si)
      [] o.kind = "composite" -> CompositeDischarge(o, stage_si)

\* a structure + composite that keeps only the composite's first member
StructureAddFirstOnly(self, other) ==
    IF other.kind = "composite"
    THEN CompositeOutlet(<<self, other.members[1]>>)
    ELSE CompositeOutlet(<<self, other>>)

\* Orifice.__add__, RectangularWeir.__add__, VNotchWeir.__add__,
\* BroadCrestedWeir.__add__
StructureAdd(self, other) ==
    IF other.kind = "composite"
    THEN CompositeOutlet(<<self>> \o other.members)
    ELSE CompositeOutlet(<<self, other>>)

\* a composite + composite that leaves out the members it already has
CompositeAddSkippingRepeats(self, other) ==
    IF other.kind = "composite"
    THEN CompositeOutlet(self.members
                         \o SelectSeq(other.members,
                                      LAMBDA o : \A k \in 1..Len(self.members) :
                                                    self.members[k] # o))
    ELSE CompositeOutlet(Append(self.members, other))

\* CompositeOutlet.__add__
CompositeAdd(self, other) ==
    IF other.kind = "composite"
    THEN CompositeOutlet(self.members \o other.members)
    ELSE CompositeOutlet(Append(self.members, other))

\* self + other
Add(self, other) ==
    IF self.kind = "composite" THEN CompositeAdd(self, other)
                               ELSE StructureAdd(self, other)

-----------------------------------------------------------------------------
(* The outlet session: a caller builds an orifice a, a rectangular or       *)
(* broad-crested weir b and a V-notch weir c, combines them with + and      *)
(* asks for discharges.                                                     *)

Slots == {"a", "b", "c", "ab", "bc", "l", "r", "n", "d", "e"}

\* argument values the session draws (thousandths of the active unit)
Diameters == {0, 300}
Inverts == {0}
Lengths == {0, 2000}
Crests == {1000}
Angles == {0, 90}
Vertices == {500}
OrificeCds == {610}
WeirCws == {1840}
NotchCds == {580}

MaxStageIdx == 2

\* the stages a discharge is asked at: every metre
QueryStages == {Scale * k : k \in 0..MaxStageIdx}

NewOrifice(diameter, invert, Cd) ==
    /\ heap["a"] = NoObj
    /\ heap' = [heap EXCEPT !["a"] = Orifice(diameter, invert, Cd, units)]
    /\ UNCHANGED <<sessionVars, units, lastQ, routeVars>>

NewRectangularWeir(length, crest, Cw) ==
    /\ heap["b"] = NoObj
    /\ heap' = [heap EXCEPT !["b"] = RectangularWeir(length, crest, Cw, units)]
    /\ UNCHANGED <<sessionVars, units, lastQ, routeVars>>

NewBroadCrestedWeir(length, crest, Cw) ==
    /\ heap["b"] = NoObj
    /\ heap' = [heap EXCEPT !["b"] = BroadCrestedWeir(length, crest, Cw, units)]
    /\ UNCHANGED <<sessionVars, units, lastQ, routeVars>>

NewVNotchWeir(angle_degrees, vertex, Cd) ==
    /\ heap["c"] = NoObj
    /\ heap' = [heap EXCEPT !["c"] = VNotchWeir(angle_degrees, vertex, Cd, units)]
    /\ UNCHANGED <<sessionVars, units, lastQ, routeVars>>

\* heap[target] = heap[x] + heap[y]
Plus(target, x, y) ==
    /\ heap[target] = NoObj
    /\ heap[x] # NoObj
    /\ heap[y] # NoObj
    /\ heap' = [heap EXCEPT ![target] = Add(heap[x], heap[y])]
    /\ UNCHANGED <<sessionVars, units, lastQ, routeVars>>

\* heap[target] = CompositeOutlet(heap[x], heap[y])
NewCompositeOutlet(target, x, y) ==
    /\ heap[target] = NoObj
    /\ heap[x] # NoObj
    /\ heap[y] # NoObj
    /\ heap' = [heap EXCEPT ![target] = CompositeOutlet(<<heap[x], heap[y]>>)]
    /\ UNCHANGED <<sessionVars, units, lastQ, routeVars>>

\* heap[slot].discharge_si(stage_si)
AskDischarge(slot, stage_si) ==
    /\ heap[slot] # NoObj
    /\ lastQ' = [slot |-> slot, stage |-> stage_si,
                 q |-> discharge_si(heap[slot], stage_si)]
    /\ UNCHANGED <<sessionVars, units, heap, routeVars>>

\* the session chooses its unit system before it builds anything
OutletSetUnits(system) ==
    /\ heap = [s \in Slots |-> NoObj]
    /\ SetUnits(system)
    /\ UNCHANGED <<sessionVars, outletVars, routeVars>>

NoQuery == [slot |-> "none", stage |-> 0, q |-> 0]

NoPond == [stages_si |-> <<>>, storages_si |-> <<>>, outflows_si |-> <<>>,
           outlet |-> NoObj]

NoCall == [kind |-> "none", inflow |-> <<>>, times |-> <<>>,
           dt_given |-> FALSE, dt |-> 0, stage_given |-> FALSE,
           initial_stage |-> 0]

NoResult == [status |-> "none"]

NoEarlier == [call |-> NoCall, units |-> "metric", result |-> NoResult]

\* the threads that route through the pond besides the one that built it
Workers == {"t1", "t2"}

\* a thread that has not called route(): its units._local has no attribute
\* system, so get_units() answers "metric"
IdleWorker == [units |-> "metric", call |-> NoCall, pc |-> "idle", i |-> 0,
               SI_prev |-> 0, stages |-> <<>>, outflows |-> <<>>,
               result |-> NoResult]

\* the threads of the units session
Threads == {"main", "t1", "t2"}

\* WaterNetwork(): six empty dicts (a dict is modelled as the function from
\* its keys to their values) and an empty control list
WaterNetwork ==
    [_junctions |-> <<>>, _reservoirs |-> <<>>, _tanks |-> <<>>,
     _pipes |-> <<>>, _pumps |-> <<>>, _valves |-> <<>>, _controls |-> <<>>]

NoOutcome == [op |-> "none", args |-> <<>>, status |-> "none"]

\* materials.py just imported: nothing loaded, nothing cached, no attribute
\* on _local; firm_file is the content of ~/.hydroflow/firm_config.toml;
\* final_db is <<>> for None and <<db>> for a cached database db
MaterialsImported ==
    [firm_file |-> "None",
     _firm_config_loaded |-> FALSE, _firm_config |-> "None",
     _merged_by_std |-> {},
     standard |-> "None", standard_explicit |-> FALSE,
     project_config |-> "None", final_db |-> <<>>]

NoHistory ==
    /\ earlier = NoEarlier
    /\ workers = [w \in Workers |-> IdleWorker]
    /\ net = WaterNetwork
    /\ netOut = NoOutcome
    /\ mat = MaterialsImported
    /\ matOut = NoOutcome
    /\ localSystem = [t \in Threads |-> "unset"]
    /\ unitsOut = [t \in Threads |-> NoOutcome]

RouteIdle ==
    /\ pond = NoPond
    /\ call = NoCall
    /\ pc = "new"
    /\ i = 0
    /\ SI_prev = 0
    /\ stages = <<>>
    /\ outflows = <<>>
    /\ result = NoResult
    /\ NoHistory

InitOutlet ==
    /\ units = "metric"
    /\ heap = [s \in Slots |-> NoObj]
    /\ lastQ = NoQuery
    /\ RouteIdle

NextOutlet ==
    \/ \E d \in Diameters, v \in Inverts, c \in OrificeCds : NewOrifice(d, v, c)
    \/ \E l \in Lengths, c \in Crests, w \in WeirCws : NewRectangularWeir(l, c, w)
    \/ \E l \in Lengths, c \in Crests, w \in WeirCws : NewBroadCrestedWeir(l, c, w)
    \/ \E g \in Angles, v \in Vertices, c \in NotchCds : NewVNotchWeir(g, v, c)
    \/ Plus("ab", "a", "b")
    \/ Plus("bc", "b", "c")
    \/ Plus("l", "ab", "c")
    \/ Plus("r", "a", "bc")
    \/ \E s \in Slots, h \in QueryStages : AskDischarge(s, h)
    \/ \E u \in UnitSystems : OutletSetUnits(u)

SpecOutlet == InitOutlet /\ [][NextOutlet]_vars

\* The combining session: the same three structures are put together in
\* every way the classes offer: structure + structure, composite + structure,
\* structure + composite, composite + composite, and the constructor called
\* with a structure and a composite.
NextCombine ==
    \/ \E d \in Diameters, v \in Inverts, c \in OrificeCds : NewOrifice(d, v, c)
    \/ \E l \in Lengths, c \in Crests, w \in WeirCws : NewRectangularWeir(l, c, w)
    \/ \E l \in Lengths, c \in Crests, w \in WeirCws : NewBroadCrestedWeir(l, c, w)
    \/ \E g \in Angles, v \in Vertices, c \in NotchCds : NewVNotchWeir(g, v, c)
    \/ Plus("ab", "a", "b")
    \/ Plus("bc", "b", "c")
    \/ Plus("l", "ab", "c")
    \/ Plus("r", "a", "bc")
    \/ Plus("d", "ab", "bc")
    \/ NewCompositeOutlet("n", "a", "bc")
    \/ Plus("e", "n", "c")
    \/ \E u \in UnitSystems : OutletSetUnits(u)

SpecCombine == InitOutlet /\ [][NextCombine]_vars

-----------------------------------------------------------------------------
(* core/routing.py: DetentionPond *)

\* the positions 1..Len(xs) ordered by xs, equal values in their given order
\* (np.argsort(x, kind = "mergesort"))
RECURSIVE ArgSort(_, _)
ArgSort(xs, done) ==
    IF Len(done) = Len(xs) THEN done
    ELSE LET rest == {k \in 1..Len(xs) : \A j \in 1..Len(done) : done[j] # k}
             nxt == CHOOSE k \in rest :
                        \A j \in rest : xs[k] < xs[j] \/ (xs[k] = xs[j] /\ k <= j)
         IN  ArgSort(xs, Append(done, nxt))

\* an interpolant that holds the end values beyond the table (np.interp)
interp1dHeldAtEnds(xs, ys, x) ==
    LET ind == ArgSort(xs, <<>>)
        n == Len(xs)
        xc == Max(xs[ind[1]], Min(x, xs[ind[n]]))
        below == Cardinality({k \in 1..n : xs[k] < xc})
        idx == Max(1, Min(below, n - 1))
        lo == ind[idx]
        hi == ind[idx + 1]
    IN  MulDiv(xc - xs[lo], ys[hi] - ys[lo], xs[hi] - xs[lo]) + ys[lo]

\* scipy.interpolate.interp1d(xs, ys, kind = "linear",
\* fill_value = "extrapolate")(x): the points are sorted by xs, the segment
\* is found by searchsorted and clipped to the table, and the line through
\* its two ends is evaluated at x, inside the table or beyond it
interp1d(xs, ys, x) ==
    LET ind == ArgSort(xs, <<>>)
        n == Len(xs)
        below == Cardinality({k \in 1..n : xs[k] < x})
        idx == Max(1, Min(below, n - 1))
        lo == ind[idx]
        hi == ind[idx + 1]
    IN  MulDiv(x - xs[lo], ys[hi] - ys[lo], xs[hi] - xs[lo]) + ys[lo]

\* DetentionPond.__init__ : the arrays are converted and stored as given
DetentionPond(stages_arg, storages_arg, outlet, system) ==
    LET st == [k \in 1..Len(stages_arg) |-> to_si(stages_arg[k], "length", system)]
    IN  [stages_si |-> st,
         storages_si |-> [k \in 1..Len(storages_arg) |->
                             to_si(storages_arg[k], "volume", system)],
         outflows_si |-> [k \in 1..Len(st) |-> discharge_si(outlet, st[k])],
         outlet |-> outlet]

\* SI_values = 2.0 * self._storages_si / dt_s + self._outflows_si
SI_values(p, dt_s) ==
    [k \in 1..Len(p.stages_si) |->
        RoundDiv(2 * p.storages_si[k], dt_s) + p.outflows_si[k]]

_h_to_outflow(p, h) == interp1d(p.stages_si, p.outflows_si, h)

_h_to_storage(p, h) == interp1d(p.stages_si, p.storages_si, h)

_SI_to_h(p, dt_s, si) == interp1d(SI_values(p, dt_s), p.stages_si, si)

\* an initial stage that defaults to the stage an earlier call ended at
initial_stage_ofWhereItStopped(c) ==
    IF c.stage_given THEN c.initial_stage
    ELSE IF earlier.result.status = "returned"
         THEN earlier.result.stages_m[Len(earlier.result.stages_m)]
         ELSE 0

\* the initial stage route() uses: the argument if given, else the default
\* of the signature (initial_stage: float = 0.0)
initial_stage_of(c) == IF c.stage_given THEN c.initial_stage ELSE 0

\* a time step that is never read from the hydrograph's times
dt_ofArgumentOnly(c) == c.dt

\* the time step route() uses: dt if given, else the hydrograph's first step
dt_of(c) == IF c.dt_given THEN c.dt ELSE c.times[2] - c.times[1]

n_steps == Len(call.inflow)

Raised(error) == [status |-> "raised", error |-> error]

DtRequired == "ValueError: dt (time step in seconds) is required when inflow is an array"

\* a dt check made before the kind of inflow is looked at
MissingDtWhateverInflow(c) == ~c.dt_given

\* route() has no time step: a bare array and dt is None
MissingDt(c) == c.kind = "array" /\ ~c.dt_given

\* SI_next = max(SI_next, 0.0)
ClampSI(si) == Max(si, 0)

\* a floor that is never applied
FloorStageMissing(p, h) == h

\* h_next = max(h_next, float(self._stages_si[0]))
FloorStage(p, h) == Max(h, p.stages_si[1])

\* outflows[i] = max(float(_h_to_outflow(h_next)), 0.0)
ClampOutflow(q) == Max(q, 0)

\* pond = DetentionPond(stages, storages, outlet)
Construct(stages_arg, storages_arg, outlet) ==
    /\ pc = "new"
    /\ pond' = DetentionPond(stages_arg, storages_arg, outlet, units)
    /\ pc' = "ready"
    /\ UNCHANGED <<sessionVars, units, outletVars, call, i, SI_prev, stages, outflows, result>>

\* pond.route(inflow, dt, initial_stage) up to the loop: the arguments, the
\* interpolants and the initial conditions
RouteEnter(c) ==
    /\ pc = "ready"
    /\ call' = c
    /\ i' = 1
    /\ IF MissingDt(c)
       THEN /\ result' = Raised(DtRequired)
            /\ pc' = "raised"
            /\ SI_prev' = 0 /\ stages' = <<>> /\ outflows' = <<>>
       ELSE IF c.kind = "hydrograph" /\ ~c.dt_given /\ Len(c.times) < 2
       THEN /\ result' = Raised("IndexError")
            /\ pc' = "raised"
            /\ SI_prev' = 0 /\ stages' = <<>> /\ outflows' = <<>>
       ELSE IF Len(pond.stages_si) # Len(pond.storages_si)
       THEN /\ result' = Raised("ValueError: arrays of different lengths")
            /\ pc' = "raised"
            /\ SI_prev' = 0 /\ stages' = <<>> /\ outflows' = <<>>
       ELSE IF Len(c.inflow) = 0
       THEN /\ result' = Raised("IndexError")
            /\ pc' = "raised"
            /\ SI_prev' = 0 /\ stages' = <<>> /\ outflows' = <<>>
       ELSE LET dt_s == dt_of(c)
                h0_si == to_si(initial_stage_of(c), "length", units)
                O0 == _h_to_outflow(pond, h0_si)
                S0 == _h_to_storage(pond, h0_si)
            IN  /\ stages' = [k \in 1..Len(c.inflow) |-> IF k = 1 THEN h0_si ELSE 0]
                /\ outflows' = [k \in 1..Len(c.inflow) |-> IF k = 1 THEN O0 ELSE 0]
                /\ SI_prev' = RoundDiv(2 * S0, dt_s) + O0
                /\ result' = NoResult
                /\ pc' = "loop"
    /\ UNCHANGED <<sessionVars, units, outletVars, pond>>

\* a recurrence that subtracts the previous outflow once instead of twice
SI_unclampedOutflowOnce ==
    call.inflow[i] + call.inflow[i + 1] + SI_prev - outflows[i]

\* SI_next = inflow_si[i - 1] + inflow_si[i] + SI_prev - 2.0 * outflows[i - 1]
SI_unclamped == call.inflow[i] + call.inflow[i + 1] + SI_prev - 2 * outflows[i]

\* one pass of the loop body, for Python's index i (the arrays of the model
\* are indexed from 1, so Python's x[i] is x[i + 1])
RouteStep ==
    /\ pc = "loop"
    /\ i < n_steps
    /\ LET SI_next == ClampSI(SI_unclamped)
           h_next == FloorStage(pond, _SI_to_h(pond, dt_of(call), SI_next))
       IN  /\ stages' = [stages EXCEPT ![i + 1] = h_next]
           /\ outflows' = [outflows EXCEPT
                              ![i + 1] = ClampOutflow(_h_to_outflow(pond, h_next))]
           /\ SI_prev' = SI_next
    /\ i' = i + 1
    /\ UNCHANGED <<sessionVars, units, outletVars, pond, call, pc, result>>

\* a reduction that reports the ratio of the peaks, not its complement
ReductionIsRatio(peak_in, peak_out) ==
    IF peak_in > 0 THEN MulDiv(peak_out, Scale, peak_in) ELSE 0

\* a reduction that reports an empty inflow as fully attenuated
ReductionOfNothingIsFull(peak_in, peak_out) ==
    IF peak_in > 0 THEN Scale - MulDiv(peak_out, Scale, peak_in) ELSE Scale

\* 1.0 - peak_out / peak_in if peak_in > 0 else 0.0
Reduction(peak_in, peak_out) ==
    IF peak_in > 0 THEN Scale - MulDiv(peak_out, Scale, peak_in) ELSE 0

\* a RoutingResult whose times count from dt instead of from 0
RoutingResultTimesFromDt(inflow_si, dt_s, stages_arr, outflows_arr) ==
    LET times == [k \in 1..Len(inflow_si) |-> k * dt_s]
        peak_in == MaxSeq(inflow_si)
        peak_out == MaxSeq(outflows_arr)
    IN  [status |-> "returned",
         outflow_cms |-> outflows_arr,
         stages_m |-> stages_arr,
         times_seconds |-> times,
         peak_inflow |-> peak_in,
         peak_outflow |-> peak_out,
         peak_reduction |-> Reduction(peak_in, peak_out),
         max_stage |-> MaxSeq(stages_arr),
         time_to_peak_outflow |-> times[ArgMax(outflows_arr)]]

\* the RoutingResult built after the loop
RoutingResult(inflow_si, dt_s, stages_arr, outflows_arr) ==
    LET times == [k \in 1..Len(inflow_si) |-> (k - 1) * dt_s]
        peak_in == MaxSeq(inflow_si)
        peak_out == MaxSeq(outflows_arr)
    IN  [status |-> "returned",
         outflow_cms |-> outflows_arr,
         stages_m |-> stages_arr,
         times_seconds |-> times,
         peak_inflow |-> peak_in,
         peak_outflow |-> peak_out,
         peak_reduction |-> Reduction(peak_in, peak_out),
         max_stage |-> MaxSeq(stages_arr),
         time_to_peak_outflow |-> times[ArgMax(outflows_arr)]]

\* an end of route() that keeps the last routed outflow in the first row of
\* the pond's outflow table
RouteReturnKeepingOutflow ==
    /\ pc = "loop"
    /\ i >= n_steps
    /\ result' = RoutingResult(call.inflow, dt_of(call), stages, outflows)
    /\ pc' = "done"
    /\ pond' = [pond EXCEPT !.outflows_si[1] = outflows[Len(outflows)]]
    /\ UNCHANGED <<sessionVars, units, outletVars, call, i, SI_prev, stages, outflows>>

\* the end of route(): the loop is over, the result is built and returned
RouteReturn ==
    /\ pc = "loop"
    /\ i >= n_steps
    /\ result' = RoutingResult(call.inflow, dt_of(call), stages, outflows)
    /\ pc' = "done"
    /\ UNCHANGED <<sessionVars, units, outletVars, pond, call, i, SI_prev, stages, outflows>>

\* the caller is done with the outcome of a call and goes on
Resume ==
    /\ pc \in {"done", "raised"}
    /\ pc' = "ready"
    /\ call' = NoCall
    /\ i' = 0
    /\ SI_prev' = 0
    /\ stages' = <<>>
    /\ outflows' = <<>>
    /\ result' = NoResult
    /\ UNCHANGED <<sessionVars, units, outletVars, pond>>

\* set_units() between two calls of the session
RouteSetUnits(system) ==
    /\ pc \in {"new", "ready"}
    /\ units # system
    /\ SetUnits(system)
    /\ UNCHANGED <<sessionVars, outletVars, routeVars>>

-----------------------------------------------------------------------------
(* The routing session: a caller builds one pond and routes inflows         *)
(* through it, one call after the other.                                    *)

\* stage and storage tables the session draws (thousandths of the active
\* units): two well-formed ones, one with arrays of different lengths and one
\* whose stages do not ascend
Tables ==
    { <<<<0, 1000, 2000>>, <<0, 6000, 18000>>>>,
      <<<<1000, 2000, 3000>>, <<3000, 9000, 21000>>>>,
      <<<<0, 1000>>, <<0, 6000, 18000>>>>,
      <<<<1000, 0, 2000>>, <<0, 6000, 18000>>>> }

\* the outlets the session draws: a narrow weir with its crest at the datum
\* or a metre above it
PondOutlets == {RectangularWeir(100, c, 1840, units) : c \in {0, 1000}}

MaxSteps == 3

InflowValues == {0, 300}

RECURSIVE SeqsUpTo(_, _)
SeqsUpTo(S, n) ==
    IF n = 0 THEN {<<>>}
    ELSE LET shorter == SeqsUpTo(S, n - 1)
         IN  shorter \cup {Append(q, x) : q \in {r \in shorter : Len(r) = n - 1}, x \in S}

Inflows == SeqsUpTo(InflowValues, MaxSteps)

TimeSteps == {60, 600}

InitialStages == {0, 1000, 1500}

\* route(inflow, dt, initial_stage) with a bare array, dt given or omitted
ArrayCalls ==
    {[kind |-> "array", inflow |-> q, times |-> <<>>, dt_given |-> g,
      dt |-> d, stage_given |-> sg, initial_stage |-> h] :
        q \in Inflows, g \in BOOLEAN, d \in TimeSteps, sg \in BOOLEAN,
        h \in InitialStages}

\* route(Hydrograph(times, flows), dt, initial_stage)
HydrographCalls ==
    {[kind |-> "hydrograph", inflow |-> q,
      times |-> [k \in 1..Len(q) |-> (k - 1) * step], dt_given |-> g,
      dt |-> d, stage_given |-> sg, initial_stage |-> h] :
        q \in Inflows, step \in TimeSteps, g \in BOOLEAN, d \in TimeSteps,
        sg \in BOOLEAN, h \in InitialStages}

\* a call with dt omitted carries no dt, one with initial_stage omitted no
\* initial stage
Calls == {c \in ArrayCalls \cup HydrographCalls :
              /\ c.dt_given \/ c.dt = 60
              /\ c.stage_given \/ c.initial_stage = 0}

Init ==
    /\ units = "metric"
    /\ heap = [s \in Slots |-> NoObj]
    /\ lastQ = NoQuery
    /\ RouteIdle

Next ==
    \/ \E t \in Tables, o \in PondOutlets : Construct(t[1], t[2], o)
    \/ \E c \in Calls : RouteEnter(c)
    \/ RouteStep
    \/ RouteReturn
    \/ Resume
    \/ \E u \in UnitSystems : RouteSetUnits(u)

Spec == Init /\ [][Next]_vars

-----------------------------------------------------------------------------
(* The reference scenario of tests/test_routing.py: the pond of _make_pond  *)
(* routed with the inflows of _triangular_inflow at dt = 600 s.              *)

\* TestDetentionPond._make_pond
ReferencePond ==
    DetentionPond(<<0, 1000, 2000, 3000>>,
                  <<0, 10000000, 25000000, 45000000>>,
                  RectangularWeir(2000, 1000, 1840, "metric"), "metric")

ReferenceDt == 600

\* TestDetentionPond._triangular_inflow(peak, t_peak_hr, duration_hr, dt_s)
TriangularInflow(peak, t_peak_hr, duration_hr, dt_s) ==
    LET n == ((duration_hr * 3600) \div dt_s) + 1
        t_peak_s == t_peak_hr * 3600
        duration_s == duration_hr * 3600
    IN  [k \in 1..n |->
            LET t == (k - 1) * dt_s
            IN  Max(IF t <= t_peak_s
                    THEN MulDiv(peak, t, t_peak_s)
                    ELSE MulDiv(peak, duration_s - t, duration_s - t_peak_s),
                    0)]

MaxPeak == 15

MaxDurationHr == 8

\* peaks in m3/s and <<hours to the peak, hours of base>> the scenario draws;
\* the largest of each is the inflow of test_peak_attenuation
Peaks == {1, 5, 10, MaxPeak}

Shapes == {<<1, 2>>, <<2, 6>>, <<3, MaxDurationHr>>}

TriangularCalls ==
    {[kind |-> "array",
      inflow |-> TriangularInflow(Scale * q, sh[1], sh[2], ReferenceDt),
      times |-> <<>>, dt_given |-> TRUE, dt |-> ReferenceDt,
      stage_given |-> FALSE, initial_stage |-> 0] : q \in Peaks, sh \in Shapes}

InitRef ==
    /\ units = "metric"
    /\ heap = [s \in Slots |-> NoObj]
    /\ lastQ = NoQuery
    /\ pond = ReferencePond
    /\ call = NoCall
    /\ pc = "ready"
    /\ i = 0
    /\ SI_prev = 0
    /\ stages = <<>>
    /\ outflows = <<>>
    /\ result = NoResult
    /\ NoHistory

NextRef ==
    \/ \E c \in TriangularCalls : RouteEnter(c)
    \/ RouteStep
    \/ RouteReturn
    \/ Resume

SpecRef == InitRef /\ [][NextRef]_vars

-----------------------------------------------------------------------------
(* A session that routes twice: a caller builds a pond, routes, keeps one   *)
(* outcome aside and routes again, other calls and set_units() in between.  *)

\* the caller keeps the outcome of the call just made and goes on
Remember ==
    /\ pc \in {"done", "raised"}
    /\ earlier' = [call |-> call, units |-> units, result |-> result]
    /\ pc' = "ready"
    /\ call' = NoCall
    /\ i' = 0
    /\ SI_prev' = 0
    /\ stages' = <<>>
    /\ outflows' = <<>>
    /\ result' = NoResult
    /\ UNCHANGED <<units, outletVars, pond, workers, libraryVars>>

\* the tables of the session that ascend and match in length
SoundTables ==
    {t \in Tables : /\ Len(t[1]) = Len(t[2])
                    /\ \A k \in 1..(Len(t[1]) - 1) : t[1][k] < t[1][k + 1]}

AgainInflows == {<<300>>, <<0, 300>>, <<300, 300, 0>>}

\* the calls the session repeats: a bare array with dt, the same series as a
\* Hydrograph whose times carry the step, and a Hydrograph routed with a dt
\* other than its own step; the initial stage omitted or one metre
AgainCalls ==
    {c \in Calls :
        /\ c.inflow \in AgainInflows
        /\ c.kind = "array" => c.dt_given
        /\ (c.kind = "hydrograph" /\ c.dt_given /\ Len(c.times) >= 2) =>
               c.dt # c.times[2] - c.times[1]
        /\ c.stage_given => c.initial_stage = 1000}

NextAgain ==
    \/ \E t \in SoundTables : Construct(t[1], t[2], RectangularWeir(100, 1000, 1840, units))
    \/ \E c \in AgainCalls : RouteEnter(c)
    \/ RouteStep
    \/ RouteReturn
    \/ Remember
    \/ Resume
    \/ \E u \in UnitSystems : RouteSetUnits(u)

SpecAgain == Init /\ [][NextAgain]_vars

-----------------------------------------------------------------------------
(* Threads.  The thread that built the pond routes a call alone and keeps   *)
(* its outcome; then the threads of Workers call route() on the same pond,  *)
(* their steps interleaved.  A thread's unit system is its own              *)
(* (units._local is a threading.local()); the pond is shared.               *)

\* what route(c) leaves in its locals before the loop, called on pond p in a
\* thread whose unit system is system
Entered(p, c, system) ==
    LET failed(e) == [pc |-> "raised", i |-> 1, SI_prev |-> 0, stages |-> <<>>,
                      outflows |-> <<>>, result |-> Raised(e)]
    IN  IF MissingDt(c) THEN failed(DtRequired)
        ELSE IF c.kind = "hydrograph" /\ ~c.dt_given /\ Len(c.times) < 2
        THEN failed("IndexError")
        ELSE IF Len(p.stages_si) # Len(p.storages_si)
        THEN failed("ValueError: arrays of different lengths")
        ELSE IF Len(c.inflow) = 0 THEN failed("IndexError")
        ELSE LET dt_s == dt_of(c)
                 h0_si == to_si(initial_stage_of(c), "length", system)
                 O0 == _h_to_outflow(p, h0_si)
                 S0 == _h_to_storage(p, h0_si)
             IN  [pc |-> "loop", i |-> 1,
                  SI_prev |-> RoundDiv(2 * S0, dt_s) + O0,
                  stages |-> [k \in 1..Len(c.inflow) |-> IF k = 1 THEN h0_si ELSE 0],
                  outflows |-> [k \in 1..Len(c.inflow) |-> IF k = 1 THEN O0 ELSE 0],
                  result |-> NoResult]

\* set_units(system) in thread w, before it routes
WorkerSetUnits(w, system) ==
    /\ workers[w].pc = "idle"
    /\ workers[w].units # system
    /\ system \in UnitSystems
    /\ workers' = [workers EXCEPT ![w].units = system]
    /\ UNCHANGED <<units, outletVars, routeVars, earlier, libraryVars>>

\* thread w calls pond.route(c)
WorkerEnter(w, c) ==
    /\ pond # NoPond
    /\ earlier # NoEarlier
    /\ workers[w].pc = "idle"
    /\ workers' = [workers EXCEPT ![w] =
                      [units |-> workers[w].units, call |-> c]
                      @@ Entered(pond, c, workers[w].units)]
    /\ UNCHANGED <<units, outletVars, routeVars, earlier, libraryVars>>

\* the SI_prev a step of thread w reads, were SI_prev kept on the shared
\* pond: the one written last by whichever thread is furthest
SI_prevOfFurthestThread(w) ==
    LET running == {v \in Workers : workers[v].pc = "loop"}
        furthest == CHOOSE v \in running : \A u \in running : workers[u].i <= workers[v].i
    IN  workers[furthest].SI_prev

\* the SI_prev a step of thread w reads: its own local
SI_prevOfThread(w) == workers[w].SI_prev

\* one pass of the loop of route() in thread w
WorkerStep(w) ==
    LET l == workers[w]
        c == l.call
    IN  /\ l.pc = "loop"
        /\ l.i < Len(c.inflow)
        /\ LET SI_next == ClampSI(c.inflow[l.i] + c.inflow[l.i + 1]
                                  + SI_prevOfThread(w) - 2 * l.outflows[l.i])
               h_next == FloorStage(pond, _SI_to_h(pond, dt_of(c), SI_next))
           IN  workers' = [workers EXCEPT
                   ![w].stages[l.i + 1] = h_next,
                   ![w].outflows[l.i + 1] = ClampOutflow(_h_to_outflow(pond, h_next)),
                   ![w].SI_prev = SI_next,
                   ![w].i = l.i + 1]
        /\ UNCHANGED <<units, outletVars, routeVars, earlier, libraryVars>>

\* route() returns in thread w
WorkerReturn(w) ==
    LET l == workers[w]
    IN  /\ l.pc = "loop"
        /\ l.i >= Len(l.call.inflow)
        /\ workers' = [workers EXCEPT
               ![w].result = RoutingResult(l.call.inflow, dt_of(l.call),
                                           l.stages, l.outflows),
               ![w].pc = "done"]
        /\ UNCHANGED <<units, outletVars, routeVars, earlier, libraryVars>>

\* the calls the threads make: an array of two or three values with dt, the
\* initial stage omitted or one length unit
ThreadCalls ==
    {c \in AgainCalls : c.kind = "array" /\ c.dt = 60 /\ Len(c.inflow) >= 2}

NextThreads ==
    \/ \E u \in UnitSystems : pc = "new" /\ RouteSetUnits(u)
    \/ \E t \in SoundTables : Construct(t[1], t[2], RectangularWeir(100, 1000, 1840, units))
    \/ \E c \in ThreadCalls : earlier = NoEarlier /\ RouteEnter(c)
    \/ RouteStep
    \/ RouteReturn
    \/ Remember
    \/ \E w \in Workers, u \in UnitSystems : WorkerSetUnits(w, u)
    \/ \E w \in Workers, c \in ThreadCalls : WorkerEnter(w, c)
    \/ \E w \in Workers : WorkerStep(w)
    \/ \E w \in Workers : WorkerReturn(w)

SpecThreads == Init /\ [][NextThreads]_vars

-----------------------------------------------------------------------------
(* Claims about route(), checked under Spec *)

\* a table as the documentation asks for it: arrays of one length, stages
\* strictly increasing, storages non-negative and strictly increasing,
\* tabulated outflows non-negative and non-decreasing
WellFormed(p) ==
    /\ Len(p.stages_si) = Len(p.storages_si)
    /\ p.storages_si[1] >= 0
    /\ p.outflows_si[1] >= 0
    /\ \A k \in 1..(Len(p.stages_si) - 1) :
           /\ p.stages_si[k] < p.stages_si[k + 1]
           /\ p.storages_si[k] < p.storages_si[k + 1]
           /\ p.outflows_si[k] <= p.outflows_si[k + 1]

Returned == pc = "done" /\ result.status = "returned"

AllZero(q) == \A k \in 1..Len(q) : q[k] = 0

\* twice the trapezoidal integral of a series, per unit of dt
TrapSum(q) == SumSeq([k \in 1..(Len(q) - 1) |-> q[k] + q[k + 1]])

\* C1: route() starts from stage[0] = the initial stage, outflow[0] = the
\* stage->outflow lookup of it and SI[0] = 2*S(stage[0])/dt + outflow[0], and
\* every pass of the loop writes exactly the next entry of both series:
\* SI[i] = max(I[i-1] + I[i] + SI[i-1] - 2*outflow[i-1], 0),
\* stage[i] = max(lookup(SI[i]), first tabulated stage) and
\* outflow[i] = max(lookup(stage[i]), 0); the index only moves forward.
C1_Recurrence ==
    [][ /\ (pc = "ready" /\ pc' = "loop") =>
               /\ i' = 1
               /\ stages'[1] = to_si(initial_stage_of(call'), "length", units)
               /\ outflows'[1] = interp1d(pond.stages_si, pond.outflows_si, stages'[1])
               /\ SI_prev' = RoundDiv(2 * interp1d(pond.stages_si, pond.storages_si,
                                                   stages'[1]), dt_of(call'))
                             + outflows'[1]
        /\ (pc = "loop" /\ pc' = "loop") =>
               LET SI == Max(call.inflow[i] + call.inflow[i + 1] + SI_prev
                             - 2 * outflows[i], 0)
                   h == Max(interp1d(SI_values(pond, dt_of(call)), pond.stages_si, SI),
                            pond.stages_si[1])
               IN  /\ i' = i + 1
                   /\ SI_prev' = SI
                   /\ stages'[i + 1] = h
                   /\ outflows'[i + 1] = Max(interp1d(pond.stages_si,
                                                      pond.outflows_si, h), 0)
                   /\ \A k \in 1..n_steps :
                          k # i + 1 => /\ stages'[k] = stages[k]
                                       /\ outflows'[k] = outflows[k]
      ]_vars

\* C1 witness: the loop has run to the end of a series of three or more
\* values and the pond holds water and discharges.
C1_Witness ==
    /\ pc = "loop"
    /\ i = n_steps
    /\ i >= 3
    /\ SI_prev > 0
    /\ stages[i] > pond.stages_si[1]
    /\ outflows[i] > 0

StartsAtBottomDry ==
    /\ to_si(initial_stage_of(call), "length", units) = pond.stages_si[1]
    /\ pond.outflows_si[1] = 0

C3_StageNeverBelowTable ==
    Returned => \A k \in 1..Len(result.stages_m) :
                    result.stages_m[k] >= pond.stages_si[1]

\* C3 (amended): stage[0] is the initial stage as given, and no stage after
\* it is below the first tabulated stage.
C3_StageFlooredAfterStart ==
    Returned =>
        /\ result.stages_m[1] = to_si(initial_stage_of(call), "length", units)
        /\ \A k \in 2..Len(result.stages_m) :
               result.stages_m[k] >= pond.stages_si[1]

\* C3 witness: a step whose looked-up stage fell below the table was floored.
C3_Witness ==
    /\ Returned
    /\ Len(result.stages_m) >= 2
    /\ \E k \in 2..Len(result.stages_m) :
           /\ result.stages_m[k] = pond.stages_si[1]
           /\ result.stages_m[k - 1] # pond.stages_si[1]

\* C4 (as claimed): through a valid table the outflow volume is at most 1.01
\* times the inflow volume, whatever the inflow and the initial stage.
C4_MassBalanceAnyStart ==
    (Returned /\ WellFormed(pond)) =>
        100 * TrapSum(result.outflow_cms) <= 101 * TrapSum(call.inflow)

\* the time step is short enough for the table: at no tabulated stage, and
\* nowhere on the extension of the last segment, does one step of outflow
\* exceed twice the volume stored above the lowest stage
NoOverdraft(p, dt_s) ==
    LET n == Len(p.stages_si)
        above == [k \in 1..n |->
                     RoundDiv(2 * (p.storages_si[k] - p.storages_si[1]), dt_s)]
    IN  /\ \A k \in 1..n : p.outflows_si[k] <= above[k]
        /\ p.outflows_si[n] - p.outflows_si[n - 1] <= above[n] - above[n - 1]

\* C4 (amended): for a non-negative inflow routed through a well-formed
\* table from its lowest tabulated stage, where the outlet discharges
\* nothing, with a time step short enough for the table, the outflow volume
\* is at most 1.01 times the inflow volume.
C4_MassBalanceFromBottom ==
    (/\ Returned
     /\ WellFormed(pond)
     /\ StartsAtBottomDry
     /\ NoOverdraft(pond, dt_of(call))
     /\ \A k \in 1..Len(call.inflow) : call.inflow[k] >= 0) =>
        100 * TrapSum(result.outflow_cms) <= 101 * TrapSum(call.inflow)

\* C4 witness: such a routing released water.
C4_Witness ==
    /\ Returned
    /\ WellFormed(pond)
    /\ StartsAtBottomDry
    /\ NoOverdraft(pond, dt_of(call))
    /\ TrapSum(result.outflow_cms) > 0

\* the time of the largest inflow of the call
InflowPeakTime == (ArgMax(call.inflow) - 1) * dt_of(call)

\* C5 (as claimed), under SpecRef: every triangular inflow routed through the
\* reference pond at dt = 600 s from the default initial stage comes back
\* with peak_outflow < peak_inflow, peak_reduction > 0 and
\* time_to_peak_outflow >= the time of the inflow peak.
C5_AttenuatesAndDelaysAlways ==
    Returned =>
        /\ result.peak_outflow < result.peak_inflow
        /\ result.peak_reduction > 0
        /\ result.time_to_peak_outflow >= InflowPeakTime

\* C5 (amended), under SpecRef: every such routing has
\* peak_outflow < peak_inflow and peak_reduction > 0; when the pond spills
\* (peak_outflow > 0) time_to_peak_outflow >= the time of the inflow peak, and
\* when it never spills the outflow is zero throughout, peak_reduction is 1
\* and time_to_peak_outflow is 0.
C5_AttenuatesAndDelaysWhenSpilling ==
    Returned =>
        /\ result.peak_outflow < result.peak_inflow
        /\ result.peak_reduction > 0
        /\ result.peak_outflow > 0 =>
               result.time_to_peak_outflow >= InflowPeakTime
        /\ result.peak_outflow = 0 =>
               /\ AllZero(result.outflow_cms)
               /\ result.peak_reduction = Scale
               /\ result.time_to_peak_outflow = 0

\* C5 witness: the inflow of test_peak_attenuation (15 m3/s after 3 h, 8 h
\* of base) was routed, the pond spilled and the outflow peaked after the
\* inflow did.
C5_Witness ==
    /\ Returned
    /\ Len(call.inflow) = 49
    /\ result.peak_inflow = 15 * Scale
    /\ InflowPeakTime = 10800
    /\ result.peak_outflow > 0
    /\ result.time_to_peak_outflow > InflowPeakTime

\* C6: route() of a bare array with dt omitted raises the error that names
\* dt before any array of the routing exists and returns no result; a
\* Hydrograph with dt omitted never raises that error.
C6_DtRequiredForArray ==
    /\ (call.kind = "array" /\ ~call.dt_given) =>
           /\ pc = "raised"
           /\ result = Raised(DtRequired)
           /\ stages = <<>>
           /\ outflows = <<>>
    /\ (call.kind = "hydrograph" /\ ~call.dt_given /\ pc = "raised") =>
           result # Raised(DtRequired)

\* C6 witness: an array of inflows without dt was refused.
C6_Witness ==
    /\ pc = "raised"
    /\ call.kind = "array"
    /\ ~call.dt_given
    /\ Len(call.inflow) >= 2
    /\ WellFormed(pond)

\* C7 (as claimed): no pond exists whose arrays differ in length or whose
\* stages do not strictly increase: its construction raised.
C7_MalformedTableRejected ==
    pond # NoPond =>
        /\ Len(pond.stages_si) = Len(pond.storages_si)
        /\ \A k \in 1..(Len(pond.stages_si) - 1) :
               pond.stages_si[k] < pond.stages_si[k + 1]

-----------------------------------------------------------------------------
(* Claims about the outlet structures, checked under SpecOutlet *)

PrimitiveSlots == {"a", "b", "c"}

CompositeSlots == {"ab", "bc", "l", "r", "n", "d", "e"}

\* the elevation a structure starts to discharge at
CharElev(o) == IF o.kind = "orifice" THEN o.elev + RoundDiv(o.size, 2)
                                     ELSE o.elev

\* the stage-independent factor of a structure's discharge formula
CoeffProduct(o) ==
    CASE o.kind = "orifice" -> o.coef * o.aux
      [] o.kind = "rectangular" -> o.coef * o.size
      [] o.kind = "broad" -> o.coef * o.size
      [] o.kind = "vnotch" -> o.aux

Sign(x) == IF x > 0 THEN 1 ELSE IF x < 0 THEN 0 - 1 ELSE 0

\* the discharges of the members of a composite, one by one
MemberDischarges(o, h) ==
    [k \in 1..Len(o.members) |-> discharge_si(o.members[k], h)]

\* C8 (as claimed): no orifice with diameter <= 0 and no rectangular or
\* broad-crested weir with length <= 0 is ever constructed: the constructor
\* raises and yields no object.
C8_NonPositiveSizeRejected ==
    \A s \in PrimitiveSlots :
        heap[s].kind \in {"orifice", "rectangular", "broad"} => heap[s].size > 0

\* C9: the discharge a composite returns at a stage is the sum of the
\* discharges of the structures it was built from, and (a+b)+c (which is also
\* a+b+c) and a+(b+c) return the same discharge at every stage.
C9_CompositeAdditive ==
    /\ lastQ.slot \in CompositeSlots =>
           lastQ.q = SumSeq(MemberDischarges(heap[lastQ.slot], lastQ.stage))
    /\ \A h \in QueryStages :
           LET qa == discharge_si(heap["a"], h)
               qb == discharge_si(heap["b"], h)
               qc == discharge_si(heap["c"], h)
           IN  /\ heap["ab"] # NoObj => discharge_si(heap["ab"], h) = qa + qb
               /\ heap["bc"] # NoObj => discharge_si(heap["bc"], h) = qb + qc
               /\ heap["l"] # NoObj => discharge_si(heap["l"], h) = qa + qb + qc
               /\ heap["r"] # NoObj => discharge_si(heap["r"], h) = qa + qb + qc
               /\ (heap["l"] # NoObj /\ heap["r"] # NoObj) =>
                      discharge_si(heap["l"], h) = discharge_si(heap["r"], h)

\* C9 witness: both groupings exist, a+(b+c) was asked for its discharge and
\* each of the three structures contributes to it.
C9_Witness ==
    /\ heap["l"] # NoObj
    /\ heap["r"] # NoObj
    /\ lastQ.slot = "r"
    /\ \A s \in PrimitiveSlots : discharge_si(heap[s], lastQ.stage) > 0

\* C10 (as claimed): a structure returns 0 at or below its characteristic
\* elevation and a strictly positive discharge above it.
C10_PositiveAbove ==
    lastQ.slot \in PrimitiveSlots =>
        LET o == heap[lastQ.slot]
        IN  /\ lastQ.stage <= CharElev(o) => lastQ.q = 0
            /\ lastQ.stage > CharElev(o) => lastQ.q > 0

\* C10 (amended): a structure returns 0 at or below its characteristic
\* elevation; above it the discharge has the sign of the stage-independent
\* factor of its formula, so it is strictly positive exactly when that factor
\* is positive.
C10_SignAbove ==
    lastQ.slot \in PrimitiveSlots =>
        LET o == heap[lastQ.slot]
        IN  /\ lastQ.stage <= CharElev(o) => lastQ.q = 0
            /\ lastQ.stage > CharElev(o) => Sign(lastQ.q) = Sign(CoeffProduct(o))

\* C10 witness: a weir was asked for its discharge above its crest and
\* returned a positive one.
C10_Witness ==
    /\ lastQ.slot = "b"
    /\ lastQ.stage > CharElev(heap["b"])
    /\ lastQ.q > 0

-----------------------------------------------------------------------------
(* Further claims about route(), checked under Spec *)

\* C12 (as claimed): a route() call without an initial stage starts from the
\* lowest tabulated stage: stage[0] is the first entry of the pond's stage
\* table, whatever the table.
C12_DefaultStartsAtLowestStage ==
    (pc \in {"loop", "done"} /\ ~call.stage_given) =>
        stages[1] = pond.stages_si[1]

-----------------------------------------------------------------------------
(* Claims about repeated route() calls, checked under SpecAgain *)

Finished == pc \in {"done", "raised"}

\* h is a Hydrograph call with dt omitted and a is the call on h's flow array
\* with the step of h's times as dt, the initial stage passed alike
ArrayOfHydrograph(h, a) ==
    /\ h.kind = "hydrograph"
    /\ ~h.dt_given
    /\ a.kind = "array"
    /\ a.dt_given
    /\ a.inflow = h.inflow
    /\ h.times = [k \in 1..Len(h.inflow) |-> (k - 1) * a.dt]
    /\ a.stage_given = h.stage_given
    /\ a.initial_stage = h.initial_stage

\* the call kept aside and the call just made are such a pair, in either
\* order, made under one unit system
HydrographAndItsArray ==
    /\ Finished
    /\ earlier.units = units
    /\ \/ ArrayOfHydrograph(earlier.call, call)
       \/ ArrayOfHydrograph(call, earlier.call)

\* the step a Hydrograph call routes with shows in the times of its result
HydrographStepRule ==
    (Returned /\ call.kind = "hydrograph" /\ Len(call.inflow) >= 2) =>
        LET step == IF call.dt_given THEN call.dt
                    ELSE call.times[2] - call.times[1]
        IN  result.times_seconds[2] - result.times_seconds[1] = step

-----------------------------------------------------------------------------
(* Further claims about route(), checked under Spec (continued) *)

\* C13: in every RoutingResult peak_inflow and peak_outflow are the maxima
\* of the inflow and outflow series, and peak_reduction is
\* 1 - peak_outflow / peak_inflow when peak_inflow > 0 and exactly 0
\* otherwise: the quotient is never taken with a zero divisor.
C13_PeakReduction ==
    Returned =>
        /\ result.peak_inflow = MaxSeq(call.inflow)
        /\ result.peak_outflow = MaxSeq(result.outflow_cms)
        /\ result.peak_inflow > 0 =>
               result.peak_reduction
                   = Scale - MulDiv(result.peak_outflow, Scale, result.peak_inflow)
        /\ result.peak_inflow <= 0 => result.peak_reduction = 0

\* C13 witness: a pond that starts above its crest was routed with no inflow
\* at all: it discharged, and the reduction is 0.
C13_Witness ==
    /\ Returned
    /\ Len(call.inflow) >= 2
    /\ result.peak_inflow = 0
    /\ result.peak_outflow > 0
    /\ result.peak_reduction = 0

\* the storage-indication value of the step about to be made
SI_ahead == Max(call.inflow[i] + call.inflow[i + 1] + SI_prev - 2 * outflows[i], 0)

\* the last point of the pond's SI table and the one before it
TopOfTable(p) == Len(p.stages_si)

\* the line through the last two points of the SI -> stage table, at si
LastSegmentLine(p, dt_s, si) ==
    LET n == TopOfTable(p)
        sv == SI_values(p, dt_s)
    IN  MulDiv(si - sv[n - 1], p.stages_si[n] - p.stages_si[n - 1],
               sv[n] - sv[n - 1]) + p.stages_si[n - 1]

\* C14: a step whose storage-indication value exceeds the value at the
\* highest tabulated stage of a well-formed table does not raise and does
\* not cap the stage: the stage written is the one on the extension of the
\* last table segment, at or above the highest tabulated stage; the loop
\* only ever goes on or returns, and max_stage is the largest stage of the
\* series, beyond the table or not.
C14_ExtrapolatesAboveTable ==
    [][ /\ (/\ pc = "loop" /\ pc' = "loop"
            /\ WellFormed(pond)
            /\ SI_ahead > SI_values(pond, dt_of(call))[TopOfTable(pond)]) =>
               /\ stages'[i + 1] = LastSegmentLine(pond, dt_of(call), SI_ahead)
               /\ stages'[i + 1] >= pond.stages_si[TopOfTable(pond)]
        /\ pc = "loop" => pc' \in {"loop", "done"}
        /\ (pc = "loop" /\ pc' = "done") =>
               /\ result'.status = "returned"
               /\ result'.max_stage = MaxSeq(stages)
               /\ \A k \in 1..Len(stages) : result'.max_stage >= stages[k]
      ]_vars

\* C14 witness: a call that started inside the table has returned with a
\* max_stage above the highest tabulated stage.
C14_Witness ==
    /\ Returned
    /\ WellFormed(pond)
    /\ result.stages_m[1] < pond.stages_si[TopOfTable(pond)]
    /\ result.max_stage > pond.stages_si[TopOfTable(pond)]

-----------------------------------------------------------------------------
(* Claims about combining outlets, checked under SpecCombine *)

\* C15 (as claimed): the member tuple of every composite, however it was
\* built, holds primitive structures only and never a composite.
C15_MembersFlat ==
    \A s \in Slots :
        heap[s].kind = "composite" =>
            \A k \in 1..Len(heap[s].members) :
                heap[s].members[k].kind # "composite"

\* the names the combining session gives to x + y, with x and y
Sums ==
    { <<"ab", "a", "b">>, <<"bc", "b", "c">>, <<"l", "ab", "c">>,
      <<"r", "a", "bc">>, <<"d", "ab", "bc">>, <<"e", "n", "c">> }

\* the members an operand of + contributes: a composite's member tuple, a
\* structure itself
MembersOf(o) == IF o.kind = "composite" THEN o.members ELSE <<o>>

\* C16: whenever x + y is evaluated, the name it is bound to holds a new
\* composite whose members are those of x followed by those of y, in their
\* order and with repeats kept, and every other object, x and y included, is
\* what it was.
C16_PlusConcatenates ==
    [][ \A t \in Sums :
            (heap[t[1]] = NoObj /\ heap'[t[1]] # NoObj) =>
                /\ heap'[t[1]].kind = "composite"
                /\ heap'[t[1]].members
                       = MembersOf(heap[t[2]]) \o MembersOf(heap[t[3]])
                /\ \A s \in Slots \ {t[1]} : heap'[s] = heap[s]
      ]_vars

\* C16 witness: (a + b) + (b + c) exists and holds b twice, next to the
\* operands it was made from.
C16_Witness ==
    /\ heap["d"] # NoObj
    /\ Len(heap["d"].members) = 4
    /\ heap["d"].members[2] = heap["d"].members[3]
    /\ heap["ab"].members = <<heap["a"], heap["b"]>>
    /\ heap["bc"].members = <<heap["b"], heap["c"]>>

-----------------------------------------------------------------------------
(* Further claims about route(), checked under Spec (series and frame) *)

\* C17: a route() call that returns, on an inflow of n values with step dt,
\* returns outflow, stage and time series of exactly n entries each, the
\* time at (Python) index k being k * dt.
C17_SeriesLengthsAndTimes ==
    Returned =>
        /\ Len(result.outflow_cms) = Len(call.inflow)
        /\ Len(result.stages_m) = Len(call.inflow)
        /\ Len(result.times_seconds) = Len(call.inflow)
        /\ \A k \in 1..Len(call.inflow) :
               result.times_seconds[k] = (k - 1) * dt_of(call)

\* C17 witness: a Hydrograph of three values was routed with a dt other than
\* the step of its times.
C17_Witness ==
    /\ Returned
    /\ call.kind = "hydrograph"
    /\ call.dt_given
    /\ Len(call.inflow) = 3
    /\ call.dt # call.times[2] - call.times[1]
    /\ result.times_seconds[3] = 2 * call.dt

-----------------------------------------------------------------------------
(* Further claims about repeated route() calls, checked under SpecAgain *)

\* the call just made has the arguments of the call kept aside
SameCallAgain == Finished /\ earlier.call = call

\* C18 (as claimed): two calls on the pond with equal inflow, dt and
\* initial_stage end alike, whatever calls of route() and set_units() were
\* made between them.
C18_SameInputsSameResult ==
    SameCallAgain => result = earlier.result

\* C18 (amended): two calls on the pond with equal inflow, dt and
\* initial_stage end alike whenever the unit system active at the second is
\* the one active at the first, or the initial stage is 0 or omitted.
C18_SameInputsAndUnitsSameResult ==
    (SameCallAgain /\ (earlier.units = units \/ initial_stage_of(call) = 0)) =>
        result = earlier.result

\* C18 witness: a call with an initial stage of one length unit was repeated
\* under the imperial system, on a pond built under the metric one, and
\* returned what it had returned before.
C18_Witness ==
    /\ SameCallAgain
    /\ Returned
    /\ call.stage_given
    /\ Len(call.inflow) = 3
    /\ units = "imperial"
    /\ earlier.units = "imperial"
    /\ pond.stages_si[2] = 1000
    /\ result.peak_outflow > 0

-----------------------------------------------------------------------------
(* Claims about route() called from several threads, checked under          *)
(* SpecThreads                                                              *)

\* thread w has finished the call the building thread routed alone
SameCallInThread(w) ==
    /\ earlier # NoEarlier
    /\ workers[w].pc \in {"done", "raised"}
    /\ workers[w].call = earlier.call

\* C19 as stated: a route() call made in any thread on the shared pond,
\* whatever the other threads are doing, returns what the same call returned
\* when the thread that built the pond ran it alone.
C19_ThreadsLikeAlone ==
    \A w \in Workers : SameCallInThread(w) => workers[w].result = earlier.result

\* C19 amended: the same, for a calling thread whose unit system is the one
\* of the building thread, or for a call whose initial stage is zero or
\* omitted.  (A thread that never called set_units() is metric.)
C19_ThreadsLikeAloneSameUnits ==
    \A w \in Workers :
        SameCallInThread(w)
        /\ (workers[w].units = earlier.units \/ initial_stage_of(earlier.call) = 0)
        => workers[w].result = earlier.result

\* an imperial thread has returned what the imperial building thread got for
\* a call with an initial stage, while the other thread is inside the loop
\* of a different call
C19_Witness ==
    \E w, v \in Workers :
        /\ w # v
        /\ SameCallInThread(w)
        /\ earlier.units = "imperial"
        /\ workers[w].units = "imperial"
        /\ earlier.call.stage_given
        /\ workers[w].result = earlier.result
        /\ workers[w].result # NoResult
        /\ workers[v].pc = "loop"
        /\ workers[v].i >= 2
        /\ workers[v].call # earlier.call

-----------------------------------------------------------------------------
(* Claim about what route() writes, checked under SpecAgain *)

\* C20: once built, the pond (its stage, storage and outflow tables and its
\* outlet) is never changed, whatever calls of route() return or raise, and
\* the inflow a call was given is the same from its first step to its end.
C20_RouteWritesNothingShared ==
    [][/\ pond # NoPond => pond' = pond
       /\ pc = "loop" => call' = call]_vars

\* a call has returned on a pond on which an earlier call raised
C20_Witness ==
    /\ pond # NoPond
    /\ earlier.result # NoResult
    /\ earlier.result.status = "raised"
    /\ pc = "done"
    /\ result.status = "returned"
    /\ Len(call.inflow) >= 2

-----------------------------------------------------------------------------
(* network/_time.py: parse_duration.  A str is the sequence of its          *)
(* characters; a duration is an integer number of thousandths of a second.  *)

Str(chars) == [kind |-> "str", text |-> chars]
Number(ms) == [kind |-> "number", value |-> ms]

DigitChars == <<"0", "1", "2", "3", "4", "5", "6", "7", "8", "9">>
LowerChars == <<"a", "b", "c", "d", "e", "f", "g", "h", "i", "j", "k", "l", "m",
                "n", "o", "p", "q", "r", "s", "t", "u", "v", "w", "x", "y", "z">>
UpperChars == <<"A", "B", "C", "D", "E", "F", "G", "H", "I", "J", "K", "L", "M",
                "N", "O", "P", "Q", "R", "S", "T", "U", "V", "W", "X", "Y", "Z">>

Range(f) == {f[k] : k \in DOMAIN f}

IsSpace(ch) == ch \in {" ", "\t"}
IsDigit(ch) == ch \in Range(DigitChars)
IsLetter(ch) == ch \in Range(LowerChars) \cup Range(UpperChars)

DigitValue(ch) == (CHOOSE k \in DOMAIN DigitChars : DigitChars[k] = ch) - 1

\* str.lower() of one character
LowerChar(ch) ==
    IF ch \in Range(UpperChars)
    THEN LowerChars[CHOOSE k \in DOMAIN UpperChars : UpperChars[k] = ch]
    ELSE ch

Slice(s, from, to) == [k \in 1..(to - from + 1) |-> s[from + k - 1]]

RECURSIVE DigitsValue(_)
DigitsValue(ds) ==
    IF Len(ds) = 0 THEN 0
    ELSE 10 * DigitsValue(Slice(ds, 1, Len(ds) - 1)) + DigitValue(ds[Len(ds)])

RECURSIVE Pow10(_)
Pow10(k) == IF k = 0 THEN 1 ELSE 10 * Pow10(k - 1)

\* [0-9]*\.?[0-9]+
IsValueText(v) ==
    /\ Len(v) >= 1
    /\ IsDigit(v[Len(v)])
    /\ \A k \in 1..Len(v) : IsDigit(v[k]) \/ v[k] = "."
    /\ Cardinality({k \in 1..Len(v) : v[k] = "."}) <= 1

\* float(match.group("value")), in thousandths
FloatOf(v) ==
    LET dots == {k \in 1..Len(v) : v[k] = "."}
    IN  IF dots = {} THEN Scale * DigitsValue(v)
        ELSE LET d == CHOOSE k \in dots : TRUE
                 frac == Slice(v, d + 1, Len(v))
             IN  Scale * DigitsValue(Slice(v, 1, d - 1))
                 + RoundDiv(Scale * DigitsValue(frac), Pow10(Len(frac)))

\* the matches of _DURATION_RE on s: where the value and the unit begin and
\* end (at most one match, the character classes being disjoint)
DurationMatches(s) ==
    {m \in [a : 1..Len(s), b : 1..Len(s), c : 1..Len(s), d : 1..Len(s)] :
        /\ m.a <= m.b /\ m.b < m.c /\ m.c <= m.d
        /\ \A k \in 1..(m.a - 1) : IsSpace(s[k])
        /\ IsValueText(Slice(s, m.a, m.b))
        /\ \A k \in (m.b + 1)..(m.c - 1) : IsSpace(s[k])
        /\ \A k \in m.c..m.d : IsLetter(s[k])
        /\ \A k \in (m.d + 1)..Len(s) : IsSpace(s[k])}

\* _UNIT_TO_SECONDS
_UNIT_TO_SECONDS ==
    [u \in {<<"s">>, <<"s", "e", "c">>, <<"s", "e", "c", "s">>,
            <<"s", "e", "c", "o", "n", "d">>, <<"s", "e", "c", "o", "n", "d", "s">>} |-> 1]
    @@ [u \in {<<"m">>, <<"m", "i", "n">>, <<"m", "i", "n", "s">>,
               <<"m", "i", "n", "u", "t", "e">>, <<"m", "i", "n", "u", "t", "e", "s">>} |-> 60]
    @@ [u \in {<<"h">>, <<"h", "r">>, <<"h", "r", "s">>, <<"h", "o", "u", "r">>,
               <<"h", "o", "u", "r", "s">>} |-> 3600]
    @@ [u \in {<<"d">>, <<"d", "a", "y">>, <<"d", "a", "y", "s">>} |-> 86400]

Value(v) == [status |-> "returned", value |-> v]
ValueError(msg) == [status |-> "ValueError", message |-> msg]

\* parse_duration(value)
parse_duration(value) ==
    IF value.kind = "number"
    THEN IF value.value < 0 THEN ValueError("Duration must be non-negative")
         ELSE Value(value.value)
    ELSE LET s == value.text
             ms == DurationMatches(s)
         IN  IF ms = {} THEN ValueError("Cannot parse duration")
             ELSE LET m == CHOOSE x \in ms : TRUE
                      num == FloatOf(Slice(s, m.a, m.b))
                      unit == [k \in 1..(m.d - m.c + 1) |-> LowerChar(s[m.c + k - 1])]
                  IN  IF unit \notin DOMAIN _UNIT_TO_SECONDS
                      THEN ValueError("Unknown time unit")
                      ELSE IF num * _UNIT_TO_SECONDS[unit] < 0
                      THEN ValueError("Duration must be non-negative")
                      ELSE Value(num * _UNIT_TO_SECONDS[unit])

-----------------------------------------------------------------------------
(* network/model.py: WaterNetwork.  A component is the record of the        *)
(* fields the model follows; lengths, powers, levels and diameters are in   *)
(* thousandths of their unit.                                               *)

\* set(self._junctions) | set(self._reservoirs) | set(self._tanks)
node_names(n) == DOMAIN n._junctions \cup DOMAIN n._reservoirs \cup DOMAIN n._tanks

\* a set of link names that holds the names of the nodes too
link_namesWithNodes(n) ==
    node_names(n) \cup DOMAIN n._pipes \cup DOMAIN n._pumps \cup DOMAIN n._valves

\* set(self._pipes) | set(self._pumps) | set(self._valves)
link_names(n) == DOMAIN n._pipes \cup DOMAIN n._pumps \cup DOMAIN n._valves

\* a call of the network raises: nothing is stored
NetRaise(op, args, error) ==
    /\ netOut' = [op |-> op, args |-> args, status |-> error]
    /\ net' = net

NetReturn(op, args) == netOut' = [op |-> op, args |-> args, status |-> "returned"]

\* d[name] = value
DictSet(d, name, value) == (name :> value) @@ d

\* the stored links, whatever their dict
Links(n) ==
    {n._pipes[k] : k \in DOMAIN n._pipes}
    \cup {n._pumps[k] : k \in DOMAIN n._pumps}
    \cup {n._valves[k] : k \in DOMAIN n._valves}

\* a name check that looks at the nodes only
NameInUseAmongNodes(n, name) == name \in node_names(n)

\* _check_name_unique(name) raises
NameInUse(n, name) == name \in node_names(n) \cup link_names(n)

\* a node check that accepts the name of any component
NodeMissingAmongAll(n, node_name) ==
    node_name \notin node_names(n) \cup link_names(n)

\* _check_node_exists(node_name) raises
NodeMissing(n, node_name) == node_name \notin node_names(n)

\* net.add_junction(name, elevation=...)
add_junction(name, elevation) ==
    /\ IF NameInUse(net, name) THEN NetRaise("add_junction", [name |-> name], "ValidationError")
       ELSE IF name = "" THEN NetRaise("add_junction", [name |-> name], "ComponentError")
       ELSE /\ net' = [net EXCEPT !._junctions =
                          DictSet(@, name, [name |-> name, elevation |-> elevation])]
            /\ NetReturn("add_junction", [name |-> name])
    /\ UNCHANGED <<coreVars, matVars, unitVars>>

\* net.add_reservoir(name, head=...)
add_reservoir(name, head) ==
    /\ IF NameInUse(net, name) THEN NetRaise("add_reservoir", [name |-> name], "ValidationError")
       ELSE IF name = "" THEN NetRaise("add_reservoir", [name |-> name], "ComponentError")
       ELSE /\ net' = [net EXCEPT !._reservoirs =
                          DictSet(@, name, [name |-> name, head |-> head])]
            /\ NetReturn("add_reservoir", [name |-> name])
    /\ UNCHANGED <<coreVars, matVars, unitVars>>

\* Tank.__post_init__ raises
TankError(name, init_level, min_level, max_level, diameter) ==
    \/ name = ""
    \/ init_level < 0
    \/ min_level < 0
    \/ max_level <= 0
    \/ diameter <= 0
    \/ min_level > max_level
    \/ init_level < min_level
    \/ init_level > max_level

\* net.add_tank(name, init_level=..., min_level=..., max_level=..., diameter=...)
add_tank(name, init_level, min_level, max_level, diameter) ==
    /\ IF NameInUse(net, name) THEN NetRaise("add_tank", [name |-> name], "ValidationError")
       ELSE IF TankError(name, init_level, min_level, max_level, diameter)
       THEN NetRaise("add_tank", [name |-> name], "ComponentError")
       ELSE /\ net' = [net EXCEPT !._tanks =
                          DictSet(@, name, [name |-> name, init_level |-> init_level,
                                            min_level |-> min_level,
                                            max_level |-> max_level,
                                            diameter |-> diameter])]
            /\ NetReturn("add_tank", [name |-> name])
    /\ UNCHANGED <<coreVars, matVars, unitVars>>

\* the arguments of a call that adds a link
LinkArgs(name, start_node, end_node) ==
    [name |-> name, start_node |-> start_node, end_node |-> end_node]

\* the link record the three link classes share
Link(kind, name, start_node, end_node, size) ==
    [kind |-> kind, name |-> name, start_node |-> start_node,
     end_node |-> end_node, size |-> size]

\* Pipe.__post_init__ raises (size is the length)
PipeError(name, start_node, end_node, length) ==
    \/ name = ""
    \/ start_node = "" \/ end_node = ""
    \/ start_node = end_node
    \/ length <= 0

\* Pump.__post_init__ raises (size is the power); Valve.__post_init__ raises
\* (size is the diameter)
PumpError(name, start_node, end_node, size) ==
    \/ name = ""
    \/ start_node = "" \/ end_node = ""
    \/ size <= 0

\* net.add_pipe(name, start_node, end_node, length=...)
add_pipe(name, start_node, end_node, length) ==
    /\ IF NameInUse(net, name) THEN NetRaise("add_pipe", LinkArgs(name, start_node, end_node), "ValidationError")
       ELSE IF NodeMissing(net, start_node) THEN NetRaise("add_pipe", LinkArgs(name, start_node, end_node), "TopologyError")
       ELSE IF NodeMissing(net, end_node) THEN NetRaise("add_pipe", LinkArgs(name, start_node, end_node), "TopologyError")
       ELSE IF PipeError(name, start_node, end_node, length)
       THEN NetRaise("add_pipe", LinkArgs(name, start_node, end_node), "ComponentError")
       ELSE /\ net' = [net EXCEPT !._pipes =
                          DictSet(@, name, Link("pipe", name, start_node, end_node, length))]
            /\ NetReturn("add_pipe", LinkArgs(name, start_node, end_node))
    /\ UNCHANGED <<coreVars, matVars, unitVars>>

\* net.add_pump(name, start_node, end_node, power=...)
add_pump(name, start_node, end_node, power) ==
    /\ IF NameInUse(net, name) THEN NetRaise("add_pump", LinkArgs(name, start_node, end_node), "ValidationError")
       ELSE IF NodeMissing(net, start_node) THEN NetRaise("add_pump", LinkArgs(name, start_node, end_node), "TopologyError")
       ELSE IF NodeMissing(net, end_node) THEN NetRaise("add_pump", LinkArgs(name, start_node, end_node), "TopologyError")
       ELSE IF PumpError(name, start_node, end_node, power)
       THEN NetRaise("add_pump", LinkArgs(name, start_node, end_node), "ComponentError")
       ELSE /\ net' = [net EXCEPT !._pumps =
                          DictSet(@, name, Link("pump", name, start_node, end_node, power))]
            /\ NetReturn("add_pump", LinkArgs(name, start_node, end_node))
    /\ UNCHANGED <<coreVars, matVars, unitVars>>

\* net.add_valve(name, start_node, end_node, diameter=..., setting=...)
add_valve(name, start_node, end_node, diameter) ==
    /\ IF NameInUse(net, name) THEN NetRaise("add_valve", LinkArgs(name, start_node, end_node), "ValidationError")
       ELSE IF NodeMissing(net, start_node) THEN NetRaise("add_valve", LinkArgs(name, start_node, end_node), "TopologyError")
       ELSE IF NodeMissing(net, end_node) THEN NetRaise("add_valve", LinkArgs(name, start_node, end_node), "TopologyError")
       ELSE IF PumpError(name, start_node, end_node, diameter)
       THEN NetRaise("add_valve", LinkArgs(name, start_node, end_node), "ComponentError")
       ELSE /\ net' = [net EXCEPT !._valves =
                          DictSet(@, name, Link("valve", name, start_node, end_node, diameter))]
            /\ NetReturn("add_valve", LinkArgs(name, start_node, end_node))
    /\ UNCHANGED <<coreVars, matVars, unitVars>>

_VALID_STATUSES == {"OPEN", "CLOSED"}
_VALID_ATTRIBUTES == {"pressure", "head", "level"}
_VALID_OPERATORS == {"<", ">", "<=", ">=", "=="}

\* net.add_time_control(link_name, status=..., at=...)
add_time_control(link_name, status, at) ==
    /\ IF link_name \notin link_names(net)
       THEN NetRaise("add_time_control", [link_name |-> link_name, status |-> status, at |-> at], "TopologyError")
       ELSE IF link_name = "" \/ status \notin _VALID_STATUSES
       THEN NetRaise("add_time_control", [link_name |-> link_name, status |-> status, at |-> at], "ComponentError")
       ELSE IF parse_duration(at).status # "returned"
       THEN NetRaise("add_time_control", [link_name |-> link_name, status |-> status, at |-> at], "ValueError")
       ELSE /\ net' = [net EXCEPT !._controls = Append(@,
                          [type |-> "time", link_name |-> link_name,
                           status |-> status,
                           at_seconds |-> parse_duration(at).value,
                           index |-> Len(net._controls)])]
            /\ NetReturn("add_time_control", [link_name |-> link_name, status |-> status, at |-> at])
    /\ UNCHANGED <<coreVars, matVars, unitVars>>

\* net.add_conditional_control(link_name, status=...,
\*                             condition=(node_name, attribute, operator, threshold))
add_conditional_control(link_name, status, node_name, attribute, operator) ==
    /\ IF link_name \notin link_names(net)
       THEN NetRaise("add_conditional_control", [link_name |-> link_name, status |-> status, node_name |-> node_name], "TopologyError")
       ELSE IF \/ link_name = "" \/ node_name = ""
               \/ status \notin _VALID_STATUSES
               \/ attribute \notin _VALID_ATTRIBUTES
               \/ operator \notin _VALID_OPERATORS
       THEN NetRaise("add_conditional_control", [link_name |-> link_name, status |-> status, node_name |-> node_name], "ComponentError")
       ELSE /\ net' = [net EXCEPT !._controls = Append(@,
                          [type |-> "conditional", link_name |-> link_name,
                           status |-> status, node_name |-> node_name,
                           attribute |-> attribute, operator |-> operator,
                           index |-> Len(net._controls)])]
            /\ NetReturn("add_conditional_control", [link_name |-> link_name, status |-> status, node_name |-> node_name])
    /\ UNCHANGED <<coreVars, matVars, unitVars>>


\* the names the network session uses, in the order sorted() gives them
NetNames == <<"a", "b", "c", "d">>

\* sorted(names) for names of the session
Sorted(names) ==
    LET pos(k) == Cardinality({j \in 1..k : NetNames[j] \in names})
    IN  [r \in 1..Cardinality(names) |->
            NetNames[CHOOSE k \in DOMAIN NetNames : NetNames[k] \in names /\ pos(k) = r]]

\* link_count[node] of validate(): each link adds one for its start node
\* and one for its end node
link_count(n, node) ==
    Cardinality({l \in Links(n) : l.start_node = node})
    + Cardinality({l \in Links(n) : l.end_node = node})

\* connected_nodes of validate()
connected_nodes(n) ==
    {l.start_node : l \in Links(n)} \cup {l.end_node : l \in Links(n)}

\* the nodes validate() warns about
dead_ends(n) ==
    {node \in node_names(n) :
        /\ link_count(n, node) = 1
        /\ node \notin DOMAIN n._reservoirs
        /\ node \notin DOMAIN n._tanks}

\* net.validate()
validate ==
    /\ net' = net
    /\ IF DOMAIN net._reservoirs = {} /\ DOMAIN net._tanks = {}
       THEN netOut' = [op |-> "validate", args |-> <<>>, status |-> "ValidationError",
                       message |-> "no source nodes"]
       ELSE IF node_names(net) \ connected_nodes(net) # {}
       THEN netOut' = [op |-> "validate", args |-> <<>>, status |-> "ValidationError",
                       message |-> "Disconnected nodes"]
       ELSE netOut' = [op |-> "validate", args |-> <<>>, status |-> "returned",
                       warnings |-> Sorted(dead_ends(net))]
    /\ UNCHANGED <<coreVars, matVars, unitVars>>

\* the sizes (length, power, diameter, level) a call is given
Sizes == {0, 500}

Names == Range(NetNames)

InitNet ==
    /\ units = "metric"
    /\ heap = [s \in Slots |-> NoObj]
    /\ lastQ = NoQuery
    /\ RouteIdle

\* the names a call of the session may give to a junction, a reservoir, a
\* tank and a link, and the names it may give as end points
JunctionNames == {"a", "b"}
ReservoirNames == {"b", "c"}
TankNames == {"b"}
PipeNames == {"c", "d"}
PumpNames == {"c"}
ValveNames == {"d"}
EndNames == {"a", "b", "c"}

NextNet ==
    \/ \E n \in JunctionNames : add_junction(n, 100)
    \/ \E n \in ReservoirNames : add_reservoir(n, 125)
    \/ \E n \in TankNames, z \in Sizes : add_tank(n, z, 0, 500, 500)
    \/ \E n \in PipeNames, s, e \in EndNames : add_pipe(n, s, e, 500)
    \/ \E n \in PumpNames, s, e \in EndNames : add_pump(n, s, e, 500)
    \/ \E n \in ValveNames, s, e \in EndNames : add_valve(n, s, e, 500)
    \/ validate

SpecNet == InitNet /\ [][NextNet]_vars

-----------------------------------------------------------------------------
(* Claims about WaterNetwork's add_* calls and validate(), checked under    *)
(* SpecNet                                                                  *)

\* the six dicts of the network
Collections(n) ==
    <<n._junctions, n._reservoirs, n._tanks, n._pipes, n._pumps, n._valves>>

UsedNames(n) == UNION {DOMAIN Collections(n)[k] : k \in 1..6}

\* no name is a key of two of the six dicts
NamesUnique(n) ==
    \A j, k \in 1..6 :
        j # k => DOMAIN Collections(n)[j] \cap DOMAIN Collections(n)[k] = {}

AddCalls == {"add_junction", "add_reservoir", "add_tank",
             "add_pipe", "add_pump", "add_valve"}

\* C21: no name is ever used by two components, nodes and links together,
\* and an add_* call with a name already in use raises ValidationError and
\* stores nothing.
C21_NamesUnique ==
    [][/\ NamesUnique(net')
       /\ netOut'.op \in AddCalls /\ netOut'.args.name \in UsedNames(net)
          => netOut'.status = "ValidationError" /\ net' = net]_vars

\* add_pipe has raised ValidationError for the name of a reservoir
C21_Witness ==
    /\ netOut.op = "add_pipe"
    /\ netOut.args.name = "c"
    /\ netOut.status = "ValidationError"
    /\ "c" \in DOMAIN net._reservoirs
    /\ "d" \notin UsedNames(net)
    /\ NamesUnique(net)

LinkCalls == {"add_pipe", "add_pump", "add_valve"}

\* both end points of every stored link are nodes of the network
EndsExist(n) ==
    \A l \in Links(n) : l.start_node \in node_names(n) /\ l.end_node \in node_names(n)

\* the call just made added a link between end points of which one is not
\* a node
MissingEndCall ==
    /\ netOut'.op \in LinkCalls
    /\ \/ netOut'.args.start_node \notin node_names(net)
       \/ netOut'.args.end_node \notin node_names(net)

\* C22 as stated: add_pipe, add_pump and add_valve with a start or end node
\* that is not a node of the network raise TopologyError and add nothing,
\* and the end points of every stored link are nodes.
C22_MissingEndRaisesTopologyError ==
    [][/\ EndsExist(net')
       /\ MissingEndCall => netOut'.status = "TopologyError" /\ net' = net]_vars

\* C22 amended: such a call adds nothing and raises TopologyError, or
\* ValidationError when the link's name is already in use (the name is
\* checked first), and the end points of every stored link are nodes.
C22_MissingEndAddsNothing ==
    [][/\ EndsExist(net')
       /\ MissingEndCall =>
             /\ net' = net
             /\ netOut'.status = IF netOut'.args.name \in UsedNames(net)
                                 THEN "ValidationError" ELSE "TopologyError"]_vars

\* add_pump has raised TopologyError for an end node that does not exist,
\* on a network that holds a link
C22_Witness ==
    /\ netOut.op = "add_pump"
    /\ netOut.status = "TopologyError"
    /\ netOut.args.start_node \in node_names(net)
    /\ netOut.args.end_node \notin node_names(net)
    /\ Links(net) # {}
    /\ EndsExist(net)

-----------------------------------------------------------------------------
(* The control session: a caller builds a small network and schedules       *)
(* controls on it.                                                          *)

\* a direct call of parse_duration(value)
CallParseDuration(value) ==
    /\ netOut' = [op |-> "parse_duration", args |-> [at |-> value]]
                 @@ parse_duration(value)
    /\ UNCHANGED <<coreVars, net, matVars, unitVars>>

MaxControls == 2

\* the times the session gives: clock times, a duration, seconds
AtInputs ==
    {Str(<<"2", "2", ":", "0", "0">>), Str(<<"6", ":", "3", "0">>),
     Str(<<"2", "5", ":", "0", "0">>), Str(<<"6", "h">>), Number(3600 * Scale)}

\* the link names and monitored node names the session gives: "a" is a
\* junction, "c" and "d" are links, "x" is never added
ControlLinks == {"a", "c", "d"}
ControlNodes == {"a", "c", "x"}

NextControls ==
    \/ add_junction("a", 100)
    \/ add_reservoir("b", 125)
    \/ add_pipe("c", "b", "a", 500)
    \/ add_pump("d", "a", "b", 500)
    \/ \E v \in AtInputs : CallParseDuration(v)
    \/ \E l \in ControlLinks, st \in {"OPEN", "ACTIVE"}, at \in AtInputs :
          Len(net._controls) < MaxControls /\ add_time_control(l, st, at)
    \/ \E l \in ControlLinks, node \in ControlNodes, attr \in {"level", "depth"} :
          /\ Len(net._controls) < MaxControls
          /\ add_conditional_control(l, "CLOSED", node, attr, "<")

SpecControls == InitNet /\ [][NextControls]_vars

-----------------------------------------------------------------------------
(* Claims about controls and clock times, checked under SpecControls *)

ControlCalls == {"add_time_control", "add_conditional_control"}

\* the names of the stored links
StoredLinkNames(n) == {l.name : l \in Links(n)}

\* every stored control is on a stored link
ControlsOnLinks(n) ==
    \A k \in 1..Len(n._controls) : n._controls[k].link_name \in StoredLinkNames(n)

\* C23: add_time_control and add_conditional_control for a name that is
\* not a stored pipe, pump or valve raise TopologyError and leave the
\* control list as it was; every stored control is on a stored link; a call
\* that returns has appended exactly one control.
C23_ControlsOnExistingLinks ==
    [][/\ ControlsOnLinks(net')
       /\ netOut'.op \in ControlCalls =>
             /\ netOut'.args.link_name \notin StoredLinkNames(net)
                => netOut'.status = "TopologyError" /\ net'._controls = net._controls
             /\ netOut'.status = "returned"
                => /\ Len(net'._controls) = Len(net._controls) + 1
                   /\ SubSeq(net'._controls, 1, Len(net._controls)) = net._controls
             /\ netOut'.status # "returned" => net'._controls = net._controls]_vars

\* a control on a junction's name has been refused on a network that holds
\* a link and a control
C23_Witness ==
    /\ netOut.op = "add_conditional_control"
    /\ netOut.status = "TopologyError"
    /\ netOut.args.link_name \in DOMAIN net._junctions
    /\ Len(net._controls) = 1
    /\ ControlsOnLinks(net)

-----------------------------------------------------------------------------
(* Claim about validate(), checked under SpecNet *)

\* the links a node is an end point of
LinksAt(n, node) == {l \in Links(n) : l.start_node = node \/ l.end_node = node}

\* what the claim has validate() answer on network n
ValidateAsClaimed(n) ==
    IF DOMAIN n._reservoirs = {} /\ DOMAIN n._tanks = {}
    THEN [status |-> "ValidationError", warnings |-> <<>>]
    ELSE IF \E node \in node_names(n) : LinksAt(n, node) = {}
    THEN [status |-> "ValidationError", warnings |-> <<>>]
    ELSE [status |-> "returned",
          warnings |-> Sorted({j \in DOMAIN n._junctions :
                                  Cardinality(LinksAt(n, j)) = 1})]

\* C24: validate() raises ValidationError on a network without reservoir
\* and tank, otherwise raises ValidationError when a node is the end point
\* of no link, otherwise returns one dead-end warning for exactly each
\* junction that is the end point of exactly one link; it never changes the
\* network.
C24_ValidateReports ==
    [][netOut'.op = "validate" =>
          /\ net' = net
          /\ netOut'.status = ValidateAsClaimed(net).status
          /\ netOut'.status = "returned"
             => netOut'.warnings = ValidateAsClaimed(net).warnings]_vars

-----------------------------------------------------------------------------
(* materials.py: the layered material database of one thread.  A database   *)
(* is the function from material names to their properties; manning_n is    *)
(* in thousandths.  None is the string "None".                              *)

\* _load_base_materials(): concrete and pvc of the bundled data
BaseMaterials ==
    [concrete |-> [manning_n |-> 13, description |-> "Concrete"],
     pvc |-> [manning_n |-> 9, description |-> "PVC"]]

\* list_standards()
Standards == {"din_en"}

\* _load_standard_overlay(name): what the bundled standard overrides
StandardOverlay ==
    [din_en |-> [concrete |-> [manning_n |-> 14, description |-> "DIN EN 1916"]]]

\* the [hydroflow] sections a TOML file of the session may hold
Configs ==
    [overrides |-> [standard |-> "None",
                    materials |-> [concrete |-> [manning_n |-> 99]]],
     firm_overrides |-> [standard |-> "None",
                         materials |-> [concrete |-> [manning_n |-> 15],
                                        pvc |-> [manning_n |-> 10]]],
     firm_standard |-> [standard |-> "din_en",
                        materials |-> [pvc |-> [manning_n |-> 10]]],
     names_standard |-> [standard |-> "din_en", materials |-> <<>>],
     names_unknown |-> [standard |-> "bogus",
                        materials |-> [concrete |-> [manning_n |-> 99]]]]

\* ~/.hydroflow/firm_config.toml: absent, or one of these
FirmFiles == {"firm_overrides", "firm_standard"}

\* the paths load_project_config() is given: three files with a [hydroflow]
\* section, one without, one that does not exist
ProjectFiles == {"overrides", "names_standard", "names_unknown",
                 "no_section", "no_file"}

\* _deep_merge of two property dicts: overlay values win
MergeProperties(base, overlay) ==
    [k \in DOMAIN base \cup DOMAIN overlay |->
        IF k \in DOMAIN overlay THEN overlay[k] ELSE base[k]]

\* _deep_merge(base, overlay)
_deep_merge(base, overlay) ==
    [m \in DOMAIN base \cup DOMAIN overlay |->
        IF m \in DOMAIN base /\ m \in DOMAIN overlay
        THEN MergeProperties(base[m], overlay[m])
        ELSE IF m \in DOMAIN overlay THEN overlay[m] ELSE base[m]]

\* _get_base_with_standard(standard), computed
BaseWithStandard(standard) ==
    IF standard = "None" THEN BaseMaterials
    ELSE _deep_merge(BaseMaterials, StandardOverlay[standard])

\* _merged_by_std after _get_base_with_standard(standard): a dict from
\* standards to databases, kept as the set of its items
MergedAfter(cache, standard) ==
    IF \E it \in cache : it[1] = standard THEN cache
    ELSE cache \cup {<<standard, BaseWithStandard(standard)>>}

\* _get_base_with_standard(standard): the cached database when there is one
_get_base_with_standard(cache, standard) ==
    IF \E it \in cache : it[1] = standard
    THEN (CHOOSE it \in cache : it[1] = standard)[2]
    ELSE BaseWithStandard(standard)

\* _apply_config_overlay(db, config)
_apply_config_overlay(db, config) ==
    IF DOMAIN config.materials # {} THEN _deep_merge(db, config.materials) ELSE db

\* _load_firm_config(): the cached section, or the file's section on the
\* first call
FirmConfigOf(m) ==
    IF m._firm_config_loaded THEN m._firm_config ELSE m.firm_file

\* the firm standard counts: no standard, none chosen by the thread, and the
\* firm config names one
FirmStandardApplies(m) ==
    /\ FirmConfigOf(m) # "None"
    /\ m.standard = "None"
    /\ ~m.standard_explicit
    /\ Configs[FirmConfigOf(m)].standard # "None"

\* _get_effective_db() when nothing is cached in _local.final_db
MergedDb(m) ==
    LET cache1 == MergedAfter(m._merged_by_std, m.standard)
        db0 == _get_base_with_standard(m._merged_by_std, m.standard)
        firm == FirmConfigOf(m)
        db1 == IF firm = "None" THEN db0
               ELSE _apply_config_overlay(
                        IF FirmStandardApplies(m)
                        THEN _get_base_with_standard(cache1, Configs[firm].standard)
                        ELSE db0,
                        Configs[firm])
    IN  IF m.project_config = "None" THEN db1
        ELSE _apply_config_overlay(db1, Configs[m.project_config])

\* _get_effective_db()
_get_effective_db(m) == IF m.final_db # <<>> THEN m.final_db[1] ELSE MergedDb(m)

\* the module state after _get_effective_db()
AfterEffectiveDb(m) ==
    IF m.final_db # <<>> THEN m
    ELSE [m EXCEPT
            !._merged_by_std =
                LET cache1 == MergedAfter(@, m.standard)
                IN  IF FirmStandardApplies(m)
                    THEN MergedAfter(cache1, Configs[FirmConfigOf(m)].standard)
                    ELSE cache1,
            !._firm_config = FirmConfigOf(m),
            !._firm_config_loaded = TRUE,
            !.final_db = <<MergedDb(m)>>]

MatRaise(op, args, error) ==
    matOut' = [op |-> op, args |-> args, status |-> error]

MatReturn(op, args) == matOut' = [op |-> op, args |-> args, status |-> "returned"]

\* someone writes ~/.hydroflow/firm_config.toml before the process reads it
WriteFirmConfig(file) ==
    /\ ~mat._firm_config_loaded
    /\ mat.firm_file = "None"
    /\ mat' = [mat EXCEPT !.firm_file = file]
    /\ matOut' = [op |-> "write_firm_config", args |-> file, status |-> "returned"]
    /\ UNCHANGED <<coreVars, netVars, unitVars>>

\* the thread's _local after set_standard(name) has passed its check
StandardSet(m, name) ==
    [m EXCEPT !.standard = name, !.standard_explicit = TRUE, !.final_db = <<>>]

\* set_standard(name)
set_standard(name) ==
    /\ IF name # "None" /\ name \notin Standards
       THEN MatRaise("set_standard", name, "ValueError") /\ mat' = mat
       ELSE MatReturn("set_standard", name) /\ mat' = StandardSet(mat, name)
    /\ UNCHANGED <<coreVars, netVars, unitVars>>

\* load_project_config(path)
load_project_config(path) ==
    /\ IF path = "no_file"
       THEN MatRaise("load_project_config", path, "FileNotFoundError") /\ mat' = mat
       ELSE IF path = "no_section"
       THEN MatRaise("load_project_config", path, "ValueError") /\ mat' = mat
       ELSE LET hf_config == Configs[path]
            IN  IF hf_config.standard = "None"
                THEN /\ MatReturn("load_project_config", path)
                     /\ mat' = [mat EXCEPT !.project_config = path,
                                           !.final_db = <<>>]
                ELSE IF hf_config.standard \notin Standards
                THEN MatRaise("load_project_config", path, "ValueError") /\ mat' = mat
                ELSE /\ MatReturn("load_project_config", path)
                     /\ mat' = [StandardSet(mat, hf_config.standard) EXCEPT
                                   !.project_config = path, !.final_db = <<>>]
    /\ UNCHANGED <<coreVars, netVars, unitVars>>

\* a clear_project_config() that leaves _local.final_db as it is
clear_project_configKeepingDb ==
    /\ mat' = [mat EXCEPT !.project_config = "None"]
    /\ MatReturn("clear_project_config", "None")
    /\ UNCHANGED <<coreVars, netVars, unitVars>>

\* clear_project_config()
clear_project_config ==
    /\ mat' = [mat EXCEPT !.project_config = "None", !.final_db = <<>>]
    /\ MatReturn("clear_project_config", "None")
    /\ UNCHANGED <<coreVars, netVars, unitVars>>

\* get_material(name), as far as manning_n and the description
get_material(name) ==
    /\ mat' = AfterEffectiveDb(mat)
    /\ LET db == _get_effective_db(mat)
       IN  IF name \notin DOMAIN db
           THEN MatRaise("get_material", name, "ValueError")
           ELSE matOut' = [op |-> "get_material", args |-> name,
                           status |-> "returned", value |-> db[name]]
    /\ UNCHANGED <<coreVars, netVars, unitVars>>

\* get_standard()
get_standard(m) == m.standard

NextMaterials ==
    \/ \E f \in FirmFiles : WriteFirmConfig(f)
    \/ \E s \in Standards \cup {"None", "bogus"} : set_standard(s)
    \/ \E p \in ProjectFiles : load_project_config(p)
    \/ clear_project_config
    \/ \E n \in {"concrete", "pvc", "steel"} : get_material(n)

SpecMaterials == InitNet /\ [][NextMaterials]_vars

-----------------------------------------------------------------------------
(* Claim about the material layers, checked under SpecMaterials *)

\* the value of a property of a material in layers given in increasing
\* priority: the one of the last layer that has it
TopValue(layers, name, prop) ==
    LET has == {k \in 1..Len(layers) :
                   name \in DOMAIN layers[k] /\ prop \in DOMAIN layers[k][name]}
        top == CHOOSE k \in has : \A j \in has : j <= k
    IN  layers[top][name][prop]

\* the overrides of a config file, none for no file
OverridesOf(file) == IF file = "None" THEN <<>> ELSE Configs[file].materials

\* the overrides of a standard, none for no standard
OverlayOf(standard) == IF standard = "None" THEN <<>> ELSE StandardOverlay[standard]

\* base < standard < firm < project, for the standard given
Layers(m, standard) ==
    <<BaseMaterials, OverlayOf(standard), OverridesOf(m.firm_file),
      OverridesOf(m.project_config)>>

\* the material the layers give
Layered(m, standard, name) ==
    [prop \in {"manning_n", "description"} |->
        TopValue(Layers(m, standard), name, prop)]

GotMaterial == matOut.op = "get_material" /\ matOut.status = "returned"

\* C25 as stated: get_material returns the merge of the base data, the
\* active standard, the firm config and the loaded project config, whatever
\* set_standard, load_project_config and clear_project_config calls came
\* before.
C25_LayersOfActiveStandard ==
    GotMaterial => matOut.value = Layered(mat, get_standard(mat), matOut.args)

\* the standard that is merged: the active one, or the one the firm config
\* names while the thread has no active standard and has never set one
\* (by set_standard or by a project config that names a standard)
MergedStandard(m) ==
    IF /\ m.standard = "None" /\ ~m.standard_explicit
       /\ m.firm_file # "None" /\ Configs[m.firm_file].standard # "None"
    THEN Configs[m.firm_file].standard
    ELSE m.standard

\* C25 amended: the same with the merged standard in place of the active
\* one.
C25_LayersOfMergedStandard ==
    GotMaterial => matOut.value = Layered(mat, MergedStandard(mat), matOut.args)

\* concrete has been looked up with all four layers in place: a firm
\* config, the standard set, a project config loaded; the project's
\* manning_n wins and the standard's description shows through
C25_Witness ==
    /\ GotMaterial
    /\ matOut.args = "concrete"
    /\ mat.firm_file = "firm_overrides"
    /\ mat.standard = "din_en"
    /\ mat.project_config = "overrides"
    /\ mat.final_db # <<>>
    /\ matOut.value.manning_n = 99
    /\ matOut.value.description = "DIN EN 1916"

-----------------------------------------------------------------------------
(* units.py: set_units() and get_units() called from several threads.  A    *)
(* call is one step: it reads or writes the attribute system of the        *)
(* calling thread's view of units._local.                                   *)

\* a _local that is one object for all threads: a write shows everywhere
LocalWriteShared(local, t, system) == [u \in DOMAIN local |-> system]

\* _local.system = system in thread t
LocalWrite(local, t, system) == [local EXCEPT ![t] = system]

\* getattr(_local, "system", "metric") in thread t
LocalRead(local, t) == IF local[t] = "unset" THEN "metric" ELSE local[t]

\* set_units(system) in thread t
set_units(t, system) ==
    /\ IF system \notin {"metric", "imperial"}
       THEN /\ unitsOut' = [unitsOut EXCEPT ![t] =
                   [op |-> "set_units", args |-> system, status |-> "ValueError"]]
            /\ localSystem' = localSystem
       ELSE /\ unitsOut' = [unitsOut EXCEPT ![t] =
                   [op |-> "set_units", args |-> system, status |-> "returned"]]
            /\ localSystem' = LocalWrite(localSystem, t, system)
    /\ UNCHANGED <<coreVars, netVars, matVars>>

\* get_units() in thread t
get_units(t) ==
    /\ unitsOut' = [unitsOut EXCEPT ![t] =
           [op |-> "get_units", args |-> "None", status |-> "returned",
            value |-> LocalRead(localSystem, t)]]
    /\ localSystem' = localSystem
    /\ UNCHANGED <<coreVars, netVars, matVars>>

\* what the threads pass to set_units()
SystemInputs == {"metric", "imperial", "martian"}

NextUnits ==
    \/ \E t \in Threads, s \in SystemInputs : set_units(t, s)
    \/ \E t \in Threads : get_units(t)

SpecUnits == InitNet /\ [][NextUnits]_vars

-----------------------------------------------------------------------------
(* Claim about the unit system of each thread, checked under SpecUnits *)

\* thread t has just made a call
Called(t) == unitsOut'[t] # unitsOut[t]

\* what get_units() answers in thread t: the system the thread set last,
\* "metric" if it set none
ActiveSystem(local, t) == IF local[t] = "unset" THEN "metric" ELSE local[t]

\* C26: the unit system is per thread.  A set_units() call of one thread
\* never changes what get_units() answers in another; get_units() answers
\* the system the calling thread set last, "metric" if it set none;
\* set_units() with another value than "metric" or "imperial" raises
\* ValueError and leaves the calling thread's system as it was.
C26_UnitsPerThread ==
    [][\A t \in Threads :
          Called(t) =>
             /\ \A u \in Threads \ {t} :
                   /\ localSystem'[u] = localSystem[u]
                   /\ ActiveSystem(localSystem', u) = ActiveSystem(localSystem, u)
             /\ unitsOut'[t].op = "get_units" =>
                   /\ unitsOut'[t].value = ActiveSystem(localSystem, t)
                   /\ localSystem'[t] = localSystem[t]
             /\ unitsOut'[t].op = "set_units" =>
                   IF unitsOut'[t].args \in {"metric", "imperial"}
                   THEN /\ unitsOut'[t].status = "returned"
                        /\ ActiveSystem(localSystem', t) = unitsOut'[t].args
                   ELSE /\ unitsOut'[t].status = "ValueError"
                        /\ localSystem'[t] = localSystem[t]]_vars

\* one thread is imperial, another that set nothing has been answered
\* "metric", and a third has had "martian" refused and is still imperial
C26_Witness ==
    \E t, u, v \in Threads :
        /\ t # u /\ u # v /\ t # v
        /\ localSystem[t] = "imperial"
        /\ localSystem[u] = "unset"
        /\ unitsOut[u].op = "get_units" /\ unitsOut[u].value = "metric"
        /\ unitsOut[v].op = "set_units" /\ unitsOut[v].status = "ValueError"
        /\ localSystem[v] = "imperial"

-----------------------------------------------------------------------------
(* Claim about clock times, checked under SpecControls *)

\* the text is H:MM or HH:MM between spaces: where the hour and the minute
\* fields are
ClockFields(s) ==
    {f \in [h1 : 1..Len(s), h2 : 1..Len(s), m2 : 1..Len(s)] :
        /\ f.h1 <= f.h2 /\ f.h2 - f.h1 <= 1
        /\ f.m2 = f.h2 + 3
        /\ \A k \in 1..(f.h1 - 1) : IsSpace(s[k])
        /\ \A k \in f.h1..f.h2 : IsDigit(s[k])
        /\ s[f.h2 + 1] = ":"
        /\ IsDigit(s[f.h2 + 2]) /\ IsDigit(s[f.m2])
        /\ \A k \in (f.m2 + 1)..Len(s) : IsSpace(s[k])}

IsClockTime(at) == at.kind = "str" /\ ClockFields(at.text) # {}

ClockHours(at) ==
    LET f == CHOOSE x \in ClockFields(at.text) : TRUE
    IN  DigitsValue(Slice(at.text, f.h1, f.h2))

ClockMinutes(at) ==
    LET f == CHOOSE x \in ClockFields(at.text) : TRUE
    IN  DigitsValue(Slice(at.text, f.h2 + 2, f.m2))

\* what the claim has parse_duration answer for a clock time, in
\* thousandths of a second
ClockAsClaimed(at) ==
    IF ClockHours(at) <= 23 /\ ClockMinutes(at) <= 59
    THEN [status |-> "returned",
          value |-> (ClockHours(at) * 3600 + ClockMinutes(at) * 60) * Scale]
    ELSE [status |-> "ValueError", message |-> "Invalid clock time"]

\* C27: parse_duration turns a clock time H:MM or HH:MM into
\* hours*3600 + minutes*60 seconds and raises ValueError "Invalid clock
\* time" for an hour or minute out of range; add_time_control with a clock
\* time on a stored link stores a control at that many seconds.
C27_ClockTimes ==
    /\ netOut.op = "parse_duration" /\ IsClockTime(netOut.args.at)
       => /\ netOut.status = ClockAsClaimed(netOut.args.at).status
          /\ netOut.status = "returned"
             => netOut.value = ClockAsClaimed(netOut.args.at).value
          /\ netOut.status = "ValueError"
             => netOut.message = ClockAsClaimed(netOut.args.at).message
    /\ /\ netOut.op = "add_time_control"
       /\ IsClockTime(netOut.args.at)
       /\ ClockAsClaimed(netOut.args.at).status = "returned"
       /\ netOut.args.link_name \in StoredLinkNames(net)
       /\ netOut.args.status \in _VALID_STATUSES
       => /\ netOut.status = "returned"
          /\ net._controls[Len(net._controls)].at_seconds
                = ClockAsClaimed(netOut.args.at).value

-----------------------------------------------------------------------------
(* Claims about the series route() returns, checked under Spec *)

\* C28: every value of the outflow series route() returns is >= 0, at
\* every index, index 0 included, whatever the pond, the inflow, the time
\* step and the initial stage.
C28_OutflowNeverNegative ==
    Returned =>
        \A k \in 1..Len(result.outflow_cms) : result.outflow_cms[k] >= 0

\* the storage-indication value of the stage and outflow reported at the
\* index the loop has reached: 2*S(stage[i])/dt + outflow[i]
SI_reported ==
    RoundDiv(2 * _h_to_storage(pond, stages[i]), dt_of(call)) + outflows[i]

\* C29: at every index the loop has reached, the storage-indication value
\* carried into the next step is 2*S(stage[i])/dt + outflow[i] of the stage
\* and the outflow reported at that index, clamped and floored steps
\* included; a well-formed table is enough to show the steps that differ,
\* and 0.010 allows for the rounding of the interpolants to thousandths.
C29_CarriedSIMatchesReported ==
    (pc = "loop" /\ WellFormed(pond)) =>
        /\ SI_prev - SI_reported <= 10
        /\ SI_reported - SI_prev <= 10

-----------------------------------------------------------------------------
(* Claims about the monitored node of a conditional control, checked under
   SpecControls *)

\* C30: in every state the network reaches, the node monitored by every
\* stored conditional control is a junction, reservoir or tank of the
\* network.
C30_MonitoredNodesExist ==
    \A k \in 1..Len(net._controls) :
        net._controls[k].type = "conditional" =>
            net._controls[k].node_name \in node_names(net)

====
